---- MODULE Spec2Model ----
(***************************************************************************)
(* Save-context bookkeeping of the open REST tabs (hoppscotch-common,      *)
(* helpers/collection): the request-level and the collection-level         *)
(* resolvers that rewrite the save context of open tabs after a reorder or *)
(* a deletion, and the teardown that detaches tabs of a deleted folder.    *)
(* With them: the propagation of inherited properties to the open tabs,    *)
(* the sweep that detaches tabs of deleted team requests, the rewriting of *)
(* save contexts when a folder is dropped into another, the Insomnia       *)
(* importer, the seeding, the update calls and the reset of the backend's  *)
(* InfraConfigService, and getChildren of the REST collection tree         *)
(* adapter.  Asynchronous calls are followed from await to await, so that  *)
(* calls in flight overlap.                                                *)
(*                                                                         *)
(* Strings of the program (folder paths, request ids) are sequences of     *)
(* one-character strings, so that startsWith, split, join, parseInt and    *)
(* number formatting are computed character by character as the program    *)
(* computes them: the path "0/10" is <<"0", "/", "1", "0">>.               *)
(***************************************************************************)
EXTENDS Integers, Sequences, FiniteSets, Bags, TLC

VARIABLES
    tabs,             \* RESTTabService: the open tabs, in tab order
    op,               \* Spec: payload of the one resolver call ("idle": not yet made)
    before,           \* Spec: the tabs as they were when that call started
    affectedIndexes,  \* Spec: the affected-index map that call computed
    requests,         \* ground truth: the ordered request ids of folder MovesFolder
    addressed,        \* ground truth: the request each tab was opened on, and
                      \* the position that request had then
    inheritedProperties,  \* per tab: document.inheritedProperties
    propagation,      \* SpecInherit: arguments of the one propagation call
    inheritedBefore,  \* SpecInherit: inheritedProperties when that call started
    sweeps,           \* the calls of resetTeamRequestsContext awaiting a lookup
                      \* (a bag: calls in flight have no order)
    response,         \* SpecSweep: the lookup response the last step handled
    importFiles,      \* the files selected for import
    importCall,       \* the call of hoppInsomniaImporter: its argument and how
                      \* far the traversal of its files has come
    importResult,     \* what that call returned ("none": nothing yet)
    configTable,      \* the rows of the infra_config table: name -> value
    appStopping,      \* stopApp has been called
    configCalls,      \* the calls of InfraConfigService that await the
                      \* database (a bag: calls in flight have no order)
    configCallsMade,  \* SpecConfig: how many calls have been made
    configCall,       \* the call of InfraConfigService that returned in the
                      \* last step ("none": no call did)
    workspaceHandle,  \* tree adapter: workspaceHandle.value.type
    viewHandle,       \* tree adapter: the view handle the service handed out
    childrenCall,     \* tree adapter: how far the call of getChildren has run
    childrenResult,   \* tree adapter: result.value of that call
    relocation        \* SpecRelocate: arguments of the one call of
                      \* updateSaveContextForAffectedRequests, and the tabs
                      \* as they were when it started

\* The variables of each part of the program, and for each part the
\* variables it never touches.
resolverVars == <<op, before, affectedIndexes, requests, addressed>>
propagatorVars == <<inheritedProperties, propagation, inheritedBefore>>
sweepVars == <<sweeps, response>>
importerVars == <<importFiles, importCall, importResult>>
configVars ==
    <<configTable, appStopping, configCalls, configCallsMade, configCall>>
treeVars == <<workspaceHandle, viewHandle, childrenCall, childrenResult>>
relocationVars == <<relocation>>
outsideResolvers ==
    <<propagatorVars, sweepVars, importerVars, configVars, treeVars,
      relocationVars>>
outsidePropagator ==
    <<resolverVars, sweepVars, importerVars, configVars, treeVars,
      relocationVars>>
outsideSweep ==
    <<resolverVars, propagatorVars, importerVars, configVars, treeVars,
      relocationVars>>
outsideImporter ==
    <<tabs, resolverVars, propagatorVars, sweepVars, configVars, treeVars,
      relocationVars>>
outsideConfig ==
    <<tabs, resolverVars, propagatorVars, sweepVars, importerVars, treeVars,
      relocationVars>>
outsideTree ==
    <<tabs, resolverVars, propagatorVars, sweepVars, importerVars, configVars,
      relocationVars>>
outsideRelocation ==
    <<resolverVars, propagatorVars, sweepVars, importerVars, configVars,
      treeVars>>

vars == <<tabs, resolverVars, outsideResolvers>>

----------------------------------------------------------------------------
(* Bounds *)

\* Largest sibling position a tab or a payload refers to.
MaxIndex == 10

\* Number of tabs that can be open at once.
MaxTabs == 2

\* Number of requests in the folder whose requests are moved around.
MaxRequests == 3

\* Number of tabs open when inherited properties are propagated (the call
\* treats every tab on its own).
MaxInheritTabs == 1

\* Number of calls of resetTeamRequestsContext in flight at once.
MaxSweeps == 2

\* Number of files imported at once.
MaxFiles == 2

\* Number of name/value pairs in one call of updateMany.
MaxBatch == 2

\* The calls of the infra config service that are followed.
MaxConfigCalls == 2

----------------------------------------------------------------------------
(* Tabs and save contexts *)

\* HoppRESTSaveContext is a tagged union (or null); every variant is written
\* with the same fields, the ones a variant does not have being empty.
NullContext ==
    [originLocation |-> "null", folderPath |-> <<>>, requestIndex |-> 0,
     requestID |-> <<>>, collectionID |-> <<>>]

UserCollectionContext(folderPath, requestIndex) ==
    [originLocation |-> "user-collection", folderPath |-> folderPath,
     requestIndex |-> requestIndex, requestID |-> <<>>, collectionID |-> <<>>]

WorkspaceUserCollectionContext(collectionID, requestID) ==
    [originLocation |-> "workspace-user-collection", folderPath |-> <<>>,
     requestIndex |-> 0, requestID |-> requestID, collectionID |-> collectionID]

TeamCollectionContext(collectionID, requestID) ==
    [originLocation |-> "team-collection", folderPath |-> <<>>,
     requestIndex |-> 0, requestID |-> requestID, collectionID |-> collectionID]

Tab(saveContext, isDirty) == [saveContext |-> saveContext, isDirty |-> isDirty]

\* The payload of a resolver call, with the resolver called (kind) and, for
\* the collection-level resolver, its second argument (type).  Record fields
\* are listed in one fixed order throughout.
IdleOp ==
    [folderPath |-> <<>>, kind |-> "idle", lastIndex |-> 0, newIndex |-> 0,
     length |-> 0, type |-> "remove"]

Payload(kind, folderPath, lastIndex, newIndex, length, type) ==
    [folderPath |-> folderPath, kind |-> kind, lastIndex |-> lastIndex,
     newIndex |-> newIndex, length |-> length, type |-> type]

\* HoppInheritedProperty: the auth inherited from the nearest ancestor that
\* sets one, and the headers inherited from every ancestor.  parentID is the
\* path (or id) of the folder an entry comes from.
InheritedAuth(parentID, inheritedAuth) ==
    [parentID |-> parentID, inheritedAuth |-> inheritedAuth]

\* inheritedHeader is a header {key, value}; find(...)?.inheritedHeader is
\* undefined when no entry is found.
Header(key, value) == [key |-> key, value |-> value]

UndefinedHeader == [key |-> "undefined", value |-> "undefined"]

InheritedHeader(parentID, inheritedHeader) ==
    [parentID |-> parentID, inheritedHeader |-> inheritedHeader]

\* document.inheritedProperties is optional: defined = FALSE is undefined.
InheritedProperties(auth, headers) ==
    [auth |-> auth, headers |-> headers, defined |-> TRUE]

UndefinedProperties ==
    [auth |-> [parentID |-> <<>>, inheritedAuth |-> "none"], headers |-> <<>>,
     defined |-> FALSE]

\* The arguments of a call of updateInheritedPropertiesForAffectedRequests
\* (type = "rest"); called = FALSE before the call is made.
IdlePropagation ==
    [called |-> FALSE, path |-> <<>>, workspace |-> "personal",
     snapshot |-> UndefinedProperties]

Propagation(path, snapshot, workspace) ==
    [called |-> TRUE, path |-> path, workspace |-> workspace,
     snapshot |-> snapshot]

\* The response of a lookup by request id, as handled by the sweep that
\* awaited it: for which tab, with which result ("null": Right with request
\* null, "found": Right with a request, "left": Left; "none": no response
\* handled in the last step), the request id that was queried, and the tab
\* as it was when the response arrived.
IdleResponse ==
    [tab |-> 0, result |-> "none", queried |-> <<>>,
     held |-> [saveContext |-> NullContext, isDirty |-> FALSE]]

Response(tab, result, queried, held) ==
    [tab |-> tab, result |-> result, queried |-> queried, held |-> held]

\* The arguments of a call of updateSaveContextForAffectedRequests, and the
\* tabs as they were when the call started.
Relocation(called, oldFolderPath, newFolderPath, tabsBefore) ==
    [called |-> called, oldFolderPath |-> oldFolderPath,
     newFolderPath |-> newFolderPath, tabsBefore |-> tabsBefore]

NoRelocation == Relocation(FALSE, <<>>, <<>>, <<>>)

----------------------------------------------------------------------------
(* JavaScript strings and numbers *)

Min(a, b) == IF a < b THEN a ELSE b

Max(a, b) == IF a < b THEN b ELSE a

\* The value parseInt gives when the text starts with no digit.
NaN == -1

DigitChars == <<"0", "1", "2", "3", "4", "5", "6", "7", "8", "9">>

IsDigit(c) == \E d \in 1..10 : DigitChars[d] = c

DigitValue(c) == (CHOOSE d \in 1..10 : DigitChars[d] = c) - 1

\* Number.prototype.toString and template interpolation of a number >= 0.
RECURSIVE toString(_)
toString(n) ==
    IF n < 10 THEN <<DigitChars[n + 1]>>
    ELSE toString(n \div 10) \o <<DigitChars[(n % 10) + 1]>>

\* parseInt: the number spelled by the leading digits, NaN when there are none.
RECURSIVE ParseDigits(_, _)
ParseDigits(s, acc) ==
    IF s = <<>> \/ ~IsDigit(Head(s)) THEN acc
    ELSE ParseDigits(Tail(s), acc * 10 + DigitValue(Head(s)))

parseInt(s) ==
    IF s = <<>> \/ ~IsDigit(Head(s)) THEN NaN ELSE ParseDigits(s, 0)

\* String.prototype.startsWith
startsWith(s, prefix) ==
    /\ Len(prefix) <= Len(s)
    /\ SubSeq(s, 1, Len(prefix)) = prefix

\* String.prototype.indexOf from position `from` (1-based; 0: not found).
RECURSIVE indexOfFrom(_, _, _)
indexOfFrom(s, pattern, from) ==
    IF from + Len(pattern) - 1 > Len(s) THEN 0
    ELSE IF SubSeq(s, from, from + Len(pattern) - 1) = pattern THEN from
    ELSE indexOfFrom(s, pattern, from + 1)

\* String.prototype.replace with a string pattern: the first occurrence of
\* the pattern is replaced ("" occurs at the start).  The replacement is
\* taken literally: the paths hold no "$".
replace(s, pattern, replacement) ==
    LET at == indexOfFrom(s, pattern, 1)
    IN  IF at = 0 THEN s
        ELSE SubSeq(s, 1, at - 1) \o replacement
                 \o SubSeq(s, at + Len(pattern), Len(s))

\* String.prototype.split("/"): the pieces between the slashes; "" gives [""].
RECURSIVE SplitFrom(_, _)
SplitFrom(s, piece) ==
    IF s = <<>> THEN <<piece>>
    ELSE IF Head(s) = "/" THEN <<piece>> \o SplitFrom(Tail(s), <<>>)
    ELSE SplitFrom(Tail(s), Append(piece, Head(s)))

split(s) == SplitFrom(s, <<>>)

\* Array.prototype.join("/")
RECURSIVE join(_)
join(parts) ==
    IF parts = <<>> THEN <<>>
    ELSE IF Len(parts) = 1 THEN parts[1]
    ELSE parts[1] \o <<"/">> \o join(Tail(parts))

\* requestID.split("/").slice(0, -1).join("/")
collectionIDOf(requestID) ==
    LET parts == split(requestID)
    IN  join(SubSeq(parts, 1, Len(parts) - 1))

\* requestID.split("/").slice(-1)[0]
lastSegmentOf(requestID) ==
    LET parts == split(requestID)
    IN  parts[Len(parts)]

\* `${a}/${b}`
slashJoin(a, b) == a \o <<"/">> \o b

----------------------------------------------------------------------------
(* Affected-index calculator (./affectedIndex) *)

EmptyMap == [k \in {} |-> 0]

mapDelete(m, key) == [k \in (DOMAIN m) \ {key} |-> m[k]]

\* The moved position maps to its destination; every other position of the
\* inclusive range between the two shifts by one toward the vacated slot.
getAffectedIndexes(from, to) ==
    [i \in Min(from, to)..Max(from, to) |->
        IF i = from THEN to
        ELSE IF from < to THEN i - 1 ELSE i + 1]

----------------------------------------------------------------------------
(* resolveSaveContextOnRequestReorder (helpers/collection/request.ts) *)

\* Variant: the destination is not decremented on a downward move.
requestNewIndexNoDecrement(payload) == payload.newIndex

\* if (newIndex > lastIndex) newIndex--
requestNewIndex(payload) ==
    IF payload.newIndex > payload.lastIndex
    THEN payload.newIndex - 1
    ELSE payload.newIndex

\* if (lastIndex === newIndex) return
requestReturnsEarly(payload) == payload.lastIndex = requestNewIndex(payload)

\* Variant: the entry of lastIndex is deleted on every call.
requestAffectedIndexesAlwaysDelete(payload) ==
    LET newIndex == requestNewIndex(payload)
    IN  mapDelete(
            getAffectedIndexes(
                payload.lastIndex,
                IF newIndex = -1 THEN payload.length ELSE newIndex),
            payload.lastIndex)

\* Variant: the entry of lastIndex is kept on a deletion.
requestAffectedIndexesKeepsLastIndex(payload) ==
    LET newIndex == requestNewIndex(payload)
    IN  getAffectedIndexes(
            payload.lastIndex,
            IF newIndex = -1 THEN payload.length ELSE newIndex)

\* The map the call works with: getAffectedIndexes(lastIndex, newIndex, or
\* length on a deletion), less the entry of lastIndex on a deletion.
requestAffectedIndexes(payload) ==
    LET newIndex == requestNewIndex(payload)
        computed == getAffectedIndexes(
                        payload.lastIndex,
                        IF newIndex = -1 THEN payload.length ELSE newIndex)
    IN  IF newIndex = -1 THEN mapDelete(computed, payload.lastIndex)
        ELSE computed

\* Variant: tabs saved in folders nested in folderPath are selected too.
requestTabSelectedUnderFolder(tab, folderPath, affected) ==
    IF tab.saveContext.originLocation = "user-collection"
    THEN /\ startsWith(tab.saveContext.folderPath, folderPath)
         /\ tab.saveContext.requestIndex \in DOMAIN affected
    ELSE /\ tab.saveContext.originLocation = "workspace-user-collection"
         /\ tab.saveContext.collectionID = folderPath
         /\ parseInt(lastSegmentOf(tab.saveContext.requestID)) \in DOMAIN affected

\* The predicate handed to getTabsRefTo.
requestTabSelected(tab, folderPath, affected) ==
    IF tab.saveContext.originLocation = "user-collection"
    THEN /\ tab.saveContext.folderPath = folderPath
         /\ tab.saveContext.requestIndex \in DOMAIN affected
    ELSE /\ tab.saveContext.originLocation = "workspace-user-collection"
         /\ tab.saveContext.collectionID = folderPath
         /\ parseInt(lastSegmentOf(tab.saveContext.requestID)) \in DOMAIN affected

\* The body of the loop over the selected tabs.
requestTabResolved(tab, affected) ==
    IF tab.saveContext.originLocation = "user-collection"
    THEN [tab EXCEPT !.saveContext.requestIndex = affected[@]]
    ELSE tab

\* getTabsRefTo hands back the tabs the predicate selects; the loop rewrites
\* those and no other tab.
resolveSaveContextOnRequestReorder(ts, payload) ==
    IF requestReturnsEarly(payload) THEN ts
    ELSE LET affected == requestAffectedIndexes(payload)
         IN  [i \in 1..Len(ts) |->
                 IF requestTabSelected(ts[i], payload.folderPath, affected)
                 THEN requestTabResolved(ts[i], affected)
                 ELSE ts[i]]

----------------------------------------------------------------------------
(* resetSaveContextForAffectedRequests (teardown of a deleted folder) *)

\* Variant: only the tabs saved in the deleted folder itself are selected.
resetTabSelectedExact(tab, folderPath) ==
    IF tab.saveContext.originLocation = "user-collection"
    THEN tab.saveContext.folderPath = folderPath
    ELSE /\ tab.saveContext.originLocation = "workspace-user-collection"
         /\ collectionIDOf(tab.saveContext.requestID) = folderPath

\* The predicate handed to getTabsRefTo.
resetTabSelected(tab, folderPath) ==
    IF tab.saveContext.originLocation = "user-collection"
    THEN startsWith(tab.saveContext.folderPath, folderPath)
    ELSE /\ tab.saveContext.originLocation = "workspace-user-collection"
         /\ startsWith(collectionIDOf(tab.saveContext.requestID), folderPath)

\* saveContext = null; isDirty = true
resetTab(tab) == [tab EXCEPT !.saveContext = NullContext, !.isDirty = TRUE]

resetSaveContextForAffectedRequests(ts, folderPath) ==
    [i \in 1..Len(ts) |->
        IF resetTabSelected(ts[i], folderPath) THEN resetTab(ts[i]) ELSE ts[i]]

----------------------------------------------------------------------------
(* resolveSaveContextOnCollectionReorder *)

\* if (newIndex > lastIndex) newIndex--
collectionNewIndex(payload) ==
    IF payload.newIndex > payload.lastIndex
    THEN payload.newIndex - 1
    ELSE payload.newIndex

\* Variant: the positions are compared before the decrement.
collectionReturnsEarlyBeforeDecrement(payload) ==
    payload.lastIndex = payload.newIndex

\* if (lastIndex === newIndex) return
collectionReturnsEarly(payload) ==
    payload.lastIndex = collectionNewIndex(payload)

collectionAffectedIndexes(payload) ==
    LET newIndex == collectionNewIndex(payload)
        computed == getAffectedIndexes(
                        payload.lastIndex,
                        IF newIndex = -1 THEN payload.length ELSE newIndex)
    IN  IF newIndex = -1 THEN mapDelete(computed, payload.lastIndex)
        ELSE computed

\* folderPath ? `${folderPath}/${index}` : index.toString()
childPath(folderPath, index) ==
    IF folderPath # <<>> THEN slashJoin(folderPath, toString(index))
    ELSE toString(index)

\* Variant: the teardown runs whatever the mode is.
collectionTeardownIgnoresType(ts, payload) ==
    IF collectionNewIndex(payload) = -1
    THEN resetSaveContextForAffectedRequests(
             ts, childPath(payload.folderPath, payload.lastIndex))
    ELSE ts

\* The tabs after the teardown step, which runs only when a folder is removed
\* (newIndex === -1) in "remove" mode.
collectionTeardown(ts, payload) ==
    IF collectionNewIndex(payload) = -1 /\ payload.type = "remove"
    THEN resetSaveContextForAffectedRequests(
             ts, childPath(payload.folderPath, payload.lastIndex))
    ELSE ts

\* affectedPaths: every entry of the index map with the folder path prefixed.
affectedPathsOf(folderPath, affected) ==
    [path \in {childPath(folderPath, key) : key \in DOMAIN affected} |->
        LET key == CHOOSE k \in DOMAIN affected : childPath(folderPath, k) = path
        IN  childPath(folderPath, affected[key])]

\* The predicate handed to getTabsRefTo.
collectionTabSelected(tab, affectedPaths) ==
    IF tab.saveContext.originLocation = "user-collection"
    THEN tab.saveContext.folderPath \in DOMAIN affectedPaths
    ELSE /\ tab.saveContext.originLocation = "workspace-user-collection"
         /\ collectionIDOf(tab.saveContext.requestID) \in DOMAIN affectedPaths

\* The body of the loop over the selected tabs.
collectionTabResolved(tab, affectedPaths) ==
    IF tab.saveContext.originLocation = "user-collection"
    THEN [tab EXCEPT !.saveContext.folderPath = affectedPaths[@]]
    ELSE IF tab.saveContext.originLocation = "workspace-user-collection"
    THEN [tab EXCEPT !.saveContext.requestID =
              slashJoin(affectedPaths[collectionIDOf(@)], lastSegmentOf(@))]
    ELSE tab

resolveSaveContextOnCollectionReorder(ts, payload) ==
    IF collectionReturnsEarly(payload) THEN ts
    ELSE LET affectedPaths ==
                 affectedPathsOf(payload.folderPath, collectionAffectedIndexes(payload))
             tornDown == collectionTeardown(ts, payload)
         IN  [i \in 1..Len(tornDown) |->
                 IF collectionTabSelected(tornDown[i], affectedPaths)
                 THEN collectionTabResolved(tornDown[i], affectedPaths)
                 ELSE tornDown[i]]

----------------------------------------------------------------------------
(* updateInheritedPropertiesForAffectedRequests *)

\* Number of positions of array at which it holds the segment that
\* saveContextArray holds at the same position (a position past the end of
\* saveContextArray holds undefined, which equals no segment).
segmentMatches(array, saveContextArray) ==
    Cardinality({i \in 1..Len(array) :
                    /\ i <= Len(saveContextArray)
                    /\ array[i] = saveContextArray[i]})

\* The path of the two that is closer to the save context: the current one
\* only when it matches at strictly more positions.  An undefined or empty
\* folderPathCurrent (<<>>) is falsy.
folderPathCloseToSaveContext(folderPathCurrent, newFolderPath, saveContextPath) ==
    IF folderPathCurrent = <<>> THEN newFolderPath
    ELSE IF segmentMatches(split(folderPathCurrent), split(saveContextPath))
            > segmentMatches(split(newFolderPath), split(saveContextPath))
         THEN folderPathCurrent
         ELSE newFolderPath

\* The predicate handed to getTabsRefTo: the tabs the call looks at.
propagationTabSelected(tab, path, workspace) ==
    IF workspace = "personal"
    THEN IF tab.saveContext.originLocation = "user-collection"
         THEN startsWith(tab.saveContext.folderPath, path)
         ELSE IF tab.saveContext.originLocation # "workspace-user-collection"
              THEN FALSE
              ELSE startsWith(collectionIDOf(tab.saveContext.requestID), path)
    ELSE /\ tab.saveContext.originLocation = "team-collection"
         /\ startsWith(tab.saveContext.collectionID, path)

\* The path the closeness of path is measured against: the folder path, the
\* collection part of the request id, or the collection id.
propagationSavePath(tab) ==
    IF tab.saveContext.originLocation = "user-collection"
    THEN tab.saveContext.folderPath
    ELSE IF tab.saveContext.originLocation = "workspace-user-collection"
         THEN collectionIDOf(tab.saveContext.requestID)
         ELSE tab.saveContext.collectionID

\* Membership of tabsEffectedByAuth.
tabEffectedByAuth(tab, inherited, path, workspace) ==
    /\ propagationTabSelected(tab, path, workspace)
    /\ path = folderPathCloseToSaveContext(
                  IF inherited.defined THEN inherited.auth.parentID ELSE <<>>,
                  path, propagationSavePath(tab))

\* Membership of tabsEffectedByHeaders.
tabEffectedByHeaders(tab, inherited, path, workspace) ==
    /\ propagationTabSelected(tab, path, workspace)
    /\ inherited.defined
    /\ \E h \in 1..Len(inherited.headers) : inherited.headers[h].parentID = path

\* headers.find(h => h.inheritedHeader?.key === key)?.inheritedHeader: the
\* header of the first entry with that key, undefined when there is none.
findInheritedHeader(headers, key) ==
    LET found == {h \in 1..Len(headers) : headers[h].inheritedHeader.key = key}
    IN  IF found = {} THEN UndefinedHeader
        ELSE headers[CHOOSE h \in found : \A g \in found : h <= g].inheritedHeader

\* The headers.map of the second loop.
propagatedHeaders(headers, path, snapshot) ==
    [h \in 1..Len(headers) |->
        IF headers[h].parentID = path
        THEN InheritedHeader(headers[h].parentID,
                 findInheritedHeader(snapshot.headers,
                                     headers[h].inheritedHeader.key))
        ELSE headers[h]]

\* What the two loops leave in one tab: the auth loop runs first, and the
\* header loop maps over what the auth loop left.
propagatedProperties(tab, inherited, path, snapshot, workspace) ==
    LET afterAuth ==
            IF tabEffectedByAuth(tab, inherited, path, workspace)
            THEN snapshot ELSE inherited
    IN  IF tabEffectedByHeaders(tab, inherited, path, workspace)
        THEN [afterAuth EXCEPT
                 !.headers = propagatedHeaders(afterAuth.headers, path, snapshot)]
        ELSE afterAuth

updateInheritedPropertiesForAffectedRequests(ts, inh, path, snapshot, workspace) ==
    [i \in 1..Len(ts) |->
        propagatedProperties(ts[i], inh[i], path, snapshot, workspace)]

----------------------------------------------------------------------------
(* resetTeamRequestsContext *)

\* getTabsRefTo(originLocation === "team-collection"): the positions of the
\* matching tabs, in tab order.
RECURSIVE teamTabRefs(_, _)
teamTabRefs(ts, from) ==
    IF from > Len(ts) THEN <<>>
    ELSE IF ts[from].saveContext.originLocation = "team-collection"
         THEN <<from>> \o teamTabRefs(ts, from + 1)
         ELSE teamTabRefs(ts, from + 1)

\* The loop from position `from` of the captured tabs on: the first position
\* whose tab still has a team-collection save context (its lookup is issued
\* and awaited there), or Len(refs) + 1 when the loop runs to its end.
RECURSIVE nextLookup(_, _, _)
nextLookup(ts, refs, from) ==
    IF from > Len(refs) THEN Len(refs) + 1
    ELSE IF ts[refs[from]].saveContext.originLocation = "team-collection"
         THEN from
         ELSE nextLookup(ts, refs, from + 1)

\* A call that awaits the lookup for the tab at position `at` of refs, issued
\* with the request id the tab had then.  A call whose loop has run to its
\* end holds nothing any more (no refs, at = 1) and returns.
sweepAt(ts, refs, at) ==
    IF at <= Len(refs)
    THEN [requestID |-> ts[refs[at]].saveContext.requestID,
          at |-> at,
          refs |-> refs]
    ELSE [requestID |-> <<>>,
          at |-> 1,
          refs |-> <<>>]

\* The call up to its first await.
startSweep(ts) ==
    sweepAt(ts, teamTabRefs(ts, 1), nextLookup(ts, teamTabRefs(ts, 1), 1))

\* The statement after the await, for the tab the lookup was issued for.
tabAfterResponseFoundClears(tab, result) ==
    IF result = "null" \/ result = "found" THEN Tab(NullContext, TRUE) ELSE tab

tabAfterResponse(tab, result) ==
    IF result = "null" THEN Tab(NullContext, TRUE) ELSE tab

tabsAfterResponseEveryRef(ts, sweep, result) ==
    [i \in 1..Len(ts) |->
        IF \E r \in 1..Len(sweep.refs) : sweep.refs[r] = i
        THEN tabAfterResponse(ts[i], result) ELSE ts[i]]

tabsAfterResponse(ts, sweep, result) ==
    [ts EXCEPT ![sweep.refs[sweep.at]] = tabAfterResponse(@, result)]

\* Variant: the loop awaits a lookup for the next captured tab whatever its
\* save context is by then.
sweepAfterResponseNoSkip(ts, sweep, result) ==
    sweepAt(tabsAfterResponse(ts, sweep, result), sweep.refs, sweep.at + 1)

\* The call from the response to its next await (or its return).
sweepAfterResponse(ts, sweep, result) ==
    sweepAt(tabsAfterResponse(ts, sweep, result), sweep.refs,
            nextLookup(tabsAfterResponse(ts, sweep, result), sweep.refs,
                       sweep.at + 1))

----------------------------------------------------------------------------
(* updateSaveContextForAffectedRequests *)

\* The predicate handed to getTabsRefTo.
relocationTabSelected(tab, oldFolderPath) ==
    IF tab.saveContext.originLocation = "user-collection"
    THEN startsWith(tab.saveContext.folderPath, oldFolderPath)
    ELSE /\ tab.saveContext.originLocation = "workspace-user-collection"
         /\ startsWith(collectionIDOf(tab.saveContext.requestID), oldFolderPath)

\* The body of the loop over the selected tabs.
relocationTabResolved(tab, oldFolderPath, newFolderPath) ==
    IF tab.saveContext.originLocation = "user-collection"
    THEN [tab EXCEPT !.saveContext.folderPath =
                         replace(@, oldFolderPath, newFolderPath)]
    ELSE IF tab.saveContext.originLocation = "workspace-user-collection"
    THEN [tab EXCEPT !.saveContext.requestID =
                         slashJoin(replace(collectionIDOf(@), oldFolderPath,
                                           newFolderPath),
                                   lastSegmentOf(@))]
    ELSE tab

updateSaveContextForAffectedRequests(ts, oldFolderPath, newFolderPath) ==
    [i \in 1..Len(ts) |->
        IF relocationTabSelected(ts[i], oldFolderPath)
        THEN relocationTabResolved(ts[i], oldFolderPath, newFolderPath)
        ELSE ts[i]]

----------------------------------------------------------------------------
(* Insomnia importer (helpers/import-export/import/insomnia.ts) *)

\* An optional string that is not set: a one-element sequence that is no
\* string of characters.  null, for a content type or a body.
Undefined == <<"undefined">>

Null == <<"null">>

\* value ?? fallback
orElse(value, fallback) == IF value = Undefined THEN fallback ELSE value

UpperCaseLetters ==
    <<"A", "B", "C", "D", "E", "F", "G", "H", "I", "J", "K", "L", "M",
      "N", "O", "P", "Q", "R", "S", "T", "U", "V", "W", "X", "Y", "Z">>

LowerCaseLetters ==
    <<"a", "b", "c", "d", "e", "f", "g", "h", "i", "j", "k", "l", "m",
      "n", "o", "p", "q", "r", "s", "t", "u", "v", "w", "x", "y", "z">>

toLowerCase(s) ==
    [i \in 1..Len(s) |->
        IF \E n \in 1..26 : UpperCaseLetters[n] = s[i]
        THEN LowerCaseLetters[CHOOSE n \in 1..26 : UpperCaseLetters[n] = s[i]]
        ELSE s[i]]

toUpperCase(s) ==
    [i \in 1..Len(s) |->
        IF \E n \in 1..26 : LowerCaseLetters[n] = s[i]
        THEN UpperCaseLetters[CHOOSE n \in 1..26 : LowerCaseLetters[n] = s[i]]
        ELSE s[i]]

\* The regular expression {{ _.([^}]+) }} matched at position i of s: the
\* position of the first "}" of the match, 0 when there is no match at i.
\* The group runs from i + 5 up to the character before the blank that
\* precedes the first "}" after i + 5.
templateClose(s, i) ==
    IF /\ i + 4 <= Len(s)
       /\ SubSeq(s, i, i + 4) = <<"{", "{", " ", "_", ".">>
       /\ \E k \in (i + 5)..Len(s) : s[k] = "}"
    THEN LET k == CHOOSE k \in (i + 5)..Len(s) :
                      /\ s[k] = "}"
                      /\ \A j \in (i + 5)..(k - 1) : s[j] # "}"
         IN  IF /\ k >= i + 7
                /\ s[k - 1] = " "
                /\ k + 1 <= Len(s)
                /\ s[k + 1] = "}"
             THEN k ELSE 0
    ELSE 0

RECURSIVE replaceTemplatingFrom(_, _)
replaceTemplatingFrom(s, i) ==
    IF i > Len(s) THEN <<>>
    ELSE IF templateClose(s, i) > 0
         THEN <<"<", "<">> \o SubSeq(s, i + 5, templateClose(s, i) - 2)
              \o <<">", ">">>
              \o replaceTemplatingFrom(s, templateClose(s, i) + 2)
         ELSE <<s[i]>> \o replaceTemplatingFrom(s, i + 1)

\* expression.replaceAll(/\{\{ _\.([^}]+) \}\}/g, "<<$1>>")
replaceInsomniaTemplating(expression) == replaceTemplatingFrom(expression, 1)

replaceVarTemplating(expression) == replaceInsomniaTemplating(expression)

ContentTypeName ==
    <<"c", "o", "n", "t", "e", "n", "t", "-", "t", "y", "p", "e">>

TextPlain ==
    <<"t", "e", "x", "t", "/", "p", "l", "a", "i", "n">>

MultipartFormData ==
    <<"m", "u", "l", "t", "i", "p", "a", "r", "t", "/", "f", "o", "r", "m",
      "-", "d", "a", "t", "a">>

FormUrlencoded ==
    <<"a", "p", "p", "l", "i", "c", "a", "t", "i", "o", "n", "/", "x", "-",
      "w", "w", "w", "-", "f", "o", "r", "m", "-", "u", "r", "l", "e", "n",
      "c", "o", "d", "e", "d">>

ApplicationJson ==
    <<"a", "p", "p", "l", "i", "c", "a", "t", "i", "o", "n", "/", "j", "s",
      "o", "n">>

UntitledRequest ==
    <<"U", "n", "t", "i", "t", "l", "e", "d", " ", "R", "e", "q", "u", "e",
      "s", "t">>

\* Object.keys(knownContentTypes), of @hoppscotch/data.
knownContentTypes ==
    {<<"a", "p", "p", "l", "i", "c", "a", "t", "i", "o", "n", "/", "j", "s", "o", "n">>,
     <<"a", "p", "p", "l", "i", "c", "a", "t", "i", "o", "n", "/", "l", "d", "+", "j", "s", "o", "n">>,
     <<"a", "p", "p", "l", "i", "c", "a", "t", "i", "o", "n", "/", "h", "a", "l", "+", "j", "s", "o", "n">>,
     <<"a", "p", "p", "l", "i", "c", "a", "t", "i", "o", "n", "/", "v", "n", "d", ".", "a", "p", "i", "+", "j", "s", "o", "n">>,
     <<"a", "p", "p", "l", "i", "c", "a", "t", "i", "o", "n", "/", "x", "m", "l">>,
     <<"t", "e", "x", "t", "/", "x", "m", "l">>,
     <<"a", "p", "p", "l", "i", "c", "a", "t", "i", "o", "n", "/", "x", "-", "w", "w", "w", "-", "f", "o", "r", "m", "-", "u", "r", "l", "e", "n", "c", "o", "d", "e", "d">>,
     <<"m", "u", "l", "t", "i", "p", "a", "r", "t", "/", "f", "o", "r", "m", "-", "d", "a", "t", "a">>,
     <<"t", "e", "x", "t", "/", "h", "t", "m", "l">>,
     <<"t", "e", "x", "t", "/", "p", "l", "a", "i", "n">>}

\* req.authentication of an Insomnia request: undefined (defined = FALSE) or
\* an object with a type tag; a field the object does not have is Undefined
\* (disabled: "undefined", "true" or "false").
InsoReqAuth(type, disabled, username, password, accessTokenUrl, authorizationUrl, clientId, scope, token) ==
    [type |-> type, defined |-> TRUE, disabled |-> disabled,
     username |-> username, password |-> password,
     accessTokenUrl |-> accessTokenUrl, authorizationUrl |-> authorizationUrl,
     clientId |-> clientId, scope |-> scope, token |-> token]

NoAuthentication ==
    [type |-> "undefined", defined |-> FALSE, disabled |-> "undefined",
     username |-> Undefined, password |-> Undefined,
     accessTokenUrl |-> Undefined, authorizationUrl |-> Undefined,
     clientId |-> Undefined, scope |-> Undefined, token |-> Undefined]

getHoppReqAuthKeepsUnset(req) ==
    IF ~req.authentication.defined
    THEN [authType |-> "none", authActive |-> TRUE]
    ELSE IF req.authentication.type = "basic"
    THEN [username |-> replaceVarTemplating(req.authentication.username),
          password |-> replaceVarTemplating(req.authentication.password),
          authType |-> "basic",
          authActive |-> TRUE]
    ELSE IF req.authentication.type = "oauth2"
    THEN [scope |-> replaceVarTemplating(req.authentication.scope),
          token |-> <<>>,
          authType |-> "oauth-2",
          authActive |-> req.authentication.disabled # "true",
          accessTokenURL |->
              replaceVarTemplating(req.authentication.accessTokenUrl),
          authURL |->
              replaceVarTemplating(req.authentication.authorizationUrl),
          clientID |-> replaceVarTemplating(req.authentication.clientId),
          oidcDiscoveryURL |-> <<>>]
    ELSE IF req.authentication.type = "bearer"
    THEN [token |-> replaceVarTemplating(req.authentication.token),
          authType |-> "bearer",
          authActive |-> TRUE]
    ELSE [authType |-> "none", authActive |-> TRUE]

getHoppReqAuth(req) ==
    IF ~req.authentication.defined
    THEN [authType |-> "none", authActive |-> TRUE]
    ELSE IF req.authentication.type = "basic"
    THEN [username |->
              replaceVarTemplating(orElse(req.authentication.username, <<>>)),
          password |->
              replaceVarTemplating(orElse(req.authentication.password, <<>>)),
          authType |-> "basic",
          authActive |-> TRUE]
    ELSE IF req.authentication.type = "oauth2"
    THEN [scope |-> replaceVarTemplating(orElse(req.authentication.scope, <<>>)),
          token |-> <<>>,
          authType |-> "oauth-2",
          authActive |-> req.authentication.disabled # "true",
          accessTokenURL |->
              replaceVarTemplating(
                  orElse(req.authentication.accessTokenUrl, <<>>)),
          authURL |->
              replaceVarTemplating(
                  orElse(req.authentication.authorizationUrl, <<>>)),
          clientID |->
              replaceVarTemplating(orElse(req.authentication.clientId, <<>>)),
          oidcDiscoveryURL |-> <<>>]
    ELSE IF req.authentication.type = "bearer"
    THEN [token |->
              replaceVarTemplating(orElse(req.authentication.token, <<>>)),
          authType |-> "bearer",
          authActive |-> TRUE]
    ELSE [authType |-> "none", authActive |-> TRUE]

\* req.body: undefined (kind "undefined"), a string (kind "string", in
\* text; the empty string is falsy) or an object (kind "object") with
\* mimeType, text and params, each of which may be unset; an unset params
\* list is given as the empty list, which maps to the same result.
InsoReqBody(kind, mimeType, text, params) ==
    [kind |-> kind, mimeType |-> mimeType, text |-> text, params |-> params]

\* A form parameter, a header or a query parameter of a request.
InsoParam(name, value, disabled) ==
    [value |-> value,
     disabled |-> disabled,
     name |-> name]

\* The value of the first header named content-type, whatever its case.
contentTypeHeader(headers) ==
    LET found == {h \in 1..Len(headers) :
                     toLowerCase(headers[h].name) = ContentTypeName}
    IN  IF found = {} THEN Undefined
        ELSE headers[CHOOSE h \in found : \A g \in found : h <= g].value

\* The lines "name: value" of the parameters that are not disabled, joined
\* by line feeds.
RECURSIVE urlencodedLines(_)
urlencodedLines(params) ==
    IF Len(params) = 0 THEN <<>>
    ELSE LET line == replaceVarTemplating(params[1].name) \o <<":", " ">>
                     \o replaceVarTemplating(orElse(params[1].value, <<>>))
         IN  IF params[1].disabled = "true"
             THEN urlencodedLines(Tail(params))
             ELSE <<line>> \o urlencodedLines(Tail(params))

RECURSIVE joinLines(_)
joinLines(lines) ==
    IF Len(lines) = 0 THEN <<>>
    ELSE IF Len(lines) = 1 THEN lines[1]
    ELSE lines[1] \o <<"\n">> \o joinLines(Tail(lines))

getHoppReqBodyPassesAnyType(req) ==
    IF \/ req.body.kind = "undefined"
       \/ req.body.kind = "string" /\ Len(req.body.text) = 0
    THEN [body |-> Null,
          contentType |-> Null]
    ELSE IF req.body.kind = "string"
    THEN [body |-> replaceVarTemplating(req.body.text),
          contentType |-> orElse(contentTypeHeader(req.headers), TextPlain)]
    ELSE IF req.body.mimeType = MultipartFormData
    THEN [body |-> [p \in 1..Len(req.body.params) |->
                      [key |-> replaceVarTemplating(req.body.params[p].name),
                       value |-> replaceVarTemplating(
                                    orElse(req.body.params[p].value, <<>>)),
                       active |-> req.body.params[p].disabled # "true",
                       isFile |-> FALSE]],
          contentType |-> MultipartFormData]
    ELSE IF req.body.mimeType = FormUrlencoded
    THEN [body |-> joinLines(urlencodedLines(req.body.params)),
          contentType |-> FormUrlencoded]
    ELSE [body |-> replaceVarTemplating(orElse(req.body.text, <<>>)),
          contentType |-> orElse(req.body.mimeType, TextPlain)]

getHoppReqBody(req) ==
    IF \/ req.body.kind = "undefined"
       \/ req.body.kind = "string" /\ Len(req.body.text) = 0
    THEN [body |-> Null,
          contentType |-> Null]
    ELSE IF req.body.kind = "string"
    THEN [body |-> replaceVarTemplating(req.body.text),
          contentType |-> orElse(contentTypeHeader(req.headers), TextPlain)]
    ELSE IF req.body.mimeType = MultipartFormData
    THEN [body |-> [p \in 1..Len(req.body.params) |->
                      [key |-> replaceVarTemplating(req.body.params[p].name),
                       value |-> replaceVarTemplating(
                                    orElse(req.body.params[p].value, <<>>)),
                       active |-> req.body.params[p].disabled # "true",
                       isFile |-> FALSE]],
          contentType |-> MultipartFormData]
    ELSE IF req.body.mimeType = FormUrlencoded
    THEN [body |-> joinLines(urlencodedLines(req.body.params)),
          contentType |-> FormUrlencoded]
    ELSE IF orElse(req.body.mimeType, TextPlain) \in knownContentTypes
    THEN [body |-> replaceVarTemplating(orElse(req.body.text, <<>>)),
          contentType |-> orElse(req.body.mimeType, TextPlain)]
    ELSE [body |-> Null,
          contentType |-> Null]

getHoppReqHeaders(req) ==
    [h \in 1..Len(req.headers) |->
        [key |-> replaceVarTemplating(req.headers[h].name),
         value |-> replaceVarTemplating(req.headers[h].value),
         active |-> req.headers[h].disabled # "true"]]

getHoppReqParams(req) ==
    [q \in 1..Len(req.parameters) |->
        [key |-> replaceVarTemplating(req.parameters[q].name),
         value |-> replaceVarTemplating(orElse(req.parameters[q].value, <<>>)),
         active |-> req.parameters[q].disabled # "true"]]

getHoppRequest(req) ==
    [auth |-> getHoppReqAuth(req),
     headers |-> getHoppReqHeaders(req),
     params |-> getHoppReqParams(req),
     name |-> orElse(req.name, UntitledRequest),
     body |-> getHoppReqBody(req),
     method |-> IF req.method = Undefined THEN <<"G", "E", "T">>
                ELSE toUpperCase(req.method),
     endpoint |-> replaceVarTemplating(orElse(req.url, <<>>)),
     preRequestScript |-> <<>>,
     testScript |-> <<>>]

\* The resources of a document that are folders lying in the folder with
\* this id (Null: at the top), in document order.
getFoldersIn(folderId, resources) ==
    SelectSeq(resources,
              LAMBDA x : /\ x._type \in {"request_group", "workspace"}
                         /\ x.parentId = folderId)

getRequestsIn(folderId, resources) ==
    SelectSeq(resources,
              LAMBDA x : x._type = "request" /\ x.parentId = folderId)

RECURSIVE getHoppFolder(_, _)
getHoppFolder(folderRes, resources) ==
    [requests |-> [r \in 1..Len(getRequestsIn(folderRes._id, resources)) |->
                     getHoppRequest(
                         getRequestsIn(folderRes._id, resources)[r])],
     auth |-> [authType |-> "inherit", authActive |-> TRUE],
     headers |-> <<>>,
     name |-> orElse(folderRes.name, <<>>),
     folders |-> [f \in 1..Len(getFoldersIn(folderRes._id, resources)) |->
                    getHoppFolder(getFoldersIn(folderRes._id, resources)[f],
                                  resources)]]

\* The collections of one document: its top-level folders.
collectionsOfDoc(doc) ==
    [f \in 1..Len(getFoldersIn(Null, doc.resources)) |->
        getHoppFolder(getFoldersIn(Null, doc.resources)[f], doc.resources)]

\* docs.flatMap(...)
RECURSIVE getHoppCollections(_)
getHoppCollections(docs) ==
    IF Len(docs) = 0 THEN <<>>
    ELSE collectionsOfDoc(docs[1]) \o getHoppCollections(Tail(docs))

\* TO.tryCatch(() => convert(content)): convert is the parser of the
\* insomnia-importers library; a file either parses to a document or makes
\* it fail.  An option is a sequence of no or one element.
parseInsomniaDoc(content) ==
    IF content.parses THEN <<[resources |-> content.resources]>> ELSE <<>>

IMPORTER_INVALID_FILE_FORMAT == "IMPORTER_INVALID_FILE_FORMAT"

\* No import has been made.
NotImported == [_tag |-> "none", left |-> "", right |-> <<>>]

\* A call of hoppInsomniaImporter(fileContents)(): phase "none" (not made),
\* "converting" (awaiting convert for the file after the docs it has), or
\* "returned"; docs: the documents of the files converted so far.
ImportCall(phase, fileContents, docs) ==
    [docs |-> docs,
     phase |-> phase,
     fileContents |-> fileContents]

NoImportCall == ImportCall("none", <<>>, <<>>)

\* TO.map(getHoppCollections) and TE.fromTaskOption: what the task returns
\* for the option the traversal ends with.
importerResult(option) ==
    IF Len(option) = 0
    THEN [_tag |-> "Left", left |-> IMPORTER_INVALID_FILE_FORMAT,
          right |-> <<>>]
    ELSE [_tag |-> "Right", left |-> "",
          right |-> getHoppCollections(option[1])]

\* The task started, up to its first await: A.traverse(TO.ApplicativeSeq)
\* runs parseInsomniaDoc file by file, each after the one before it; of no
\* file the traversal is some([]) at once.
hoppInsomniaImporter(fileContents) ==
    IF Len(fileContents) = 0 THEN ImportCall("returned", fileContents, <<>>)
    ELSE ImportCall("converting", fileContents, <<>>)

\* Variant: a file that does not parse is left out and the traversal goes on.
convertAnsweredSkipsFailures(call) ==
    LET content == call.fileContents[Len(call.docs) + 1]
        docs == call.docs
                  \o (IF content.parses THEN parseInsomniaDoc(content)
                      ELSE <<[resources |-> <<>>]>>)
    IN  IF Len(docs) = Len(call.fileContents)
        THEN ImportCall("returned", call.fileContents, docs)
        ELSE ImportCall("converting", call.fileContents, docs)

\* convert has answered for the file the call awaits: on none the traversal
\* ends with none (the files after it are not converted), on some it goes
\* on to the next file, or ends with the documents after the last.
convertAnswered(call) ==
    LET doc == parseInsomniaDoc(call.fileContents[Len(call.docs) + 1])
    IN  IF Len(doc) = 0
        THEN ImportCall("returned", call.fileContents, <<>>)
        ELSE IF Len(call.docs) + 1 = Len(call.fileContents)
        THEN ImportCall("returned", call.fileContents, call.docs \o doc)
        ELSE ImportCall("converting", call.fileContents, call.docs \o doc)

\* What a call that has returned returned: none of the traversal is a call
\* with files and without documents.
importResultOf(call) ==
    IF Len(call.docs) < Len(call.fileContents) THEN importerResult(<<>>)
    ELSE importerResult(<<call.docs>>)

----------------------------------------------------------------------------
(* InfraConfigService (hoppscotch-backend, infra-config.service.ts) *)

INFRA_CONFIG_INVALID_INPUT == "INFRA_CONFIG_INVALID_INPUT"

INFRA_CONFIG_UPDATE_FAILED == "INFRA_CONFIG_UPDATE_FAILED"

\* E.left and E.right
EitherLeft(error) == [_tag |-> "Left", left |-> error, right |-> <<>>]

EitherRight(value) == [_tag |-> "Right", left |-> "", right |-> value]

\* One element of the argument of updateMany.
InfraConfigArgs(name, value) == [value |-> value,
                                 name |-> name]

\* The text has this prefix and something after it.
HasScheme(text, scheme) == startsWith(text, scheme) /\ Len(text) > Len(scheme)

\* validateSMTPUrl of src/utils: smtp:// or smtps:// and a host.
validateSMTPUrl(url) ==
    \/ HasScheme(url, <<"s", "m", "t", "p", ":", "/", "/">>)
    \/ HasScheme(url, <<"s", "m", "t", "p", "s", ":", "/", "/">>)

\* validateSMTPEmail of src/utils: local@domain.tld, without blanks.
validateSMTPEmail(email) ==
    /\ Cardinality({i \in 1..Len(email) : email[i] = "@"}) = 1
    /\ \A i \in 1..Len(email) : email[i] # " "
    /\ email[1] # "@"
    /\ \E d \in 1..Len(email) :
          /\ email[d] = "."
          /\ d < Len(email)
          /\ \E a \in 1..(d - 2) : email[a] = "@"

\* validateUrl of src/utils: http:// or https:// and the rest, without blanks
\* and quotes.
validateUrl(url) ==
    /\ \/ HasScheme(url, <<"h", "t", "t", "p", ":", "/", "/">>)
       \/ HasScheme(url, <<"h", "t", "t", "p", "s", ":", "/", "/">>)
    /\ \A i \in 1..Len(url) : url[i] \notin {" ", "\""}

\* The names whose value must not be empty.
NonEmptyConfigs ==
    {"GOOGLE_CLIENT_ID", "GOOGLE_CLIENT_SECRET", "GOOGLE_SCOPE",
     "GITHUB_CLIENT_ID", "GITHUB_CLIENT_SECRET", "GITHUB_SCOPE",
     "MICROSOFT_CLIENT_ID", "MICROSOFT_CLIENT_SECRET", "MICROSOFT_SCOPE",
     "MICROSOFT_TENANT"}

\* The names whose value must be a URL.
CallbackUrlConfigs ==
    {"GOOGLE_CALLBACK_URL", "GITHUB_CALLBACK_URL", "MICROSOFT_CALLBACK_URL"}

\* The switch of validateEnvValues on one element: FALSE where it returns
\* E.left(INFRA_CONFIG_INVALID_INPUT), TRUE where it breaks.
envValueAccepted(infraConfig) ==
    IF infraConfig.name = "MAILER_SMTP_URL"
    THEN validateSMTPUrl(infraConfig.value)
    ELSE IF infraConfig.name = "MAILER_ADDRESS_FROM"
    THEN validateSMTPEmail(infraConfig.value)
    ELSE IF infraConfig.name \in NonEmptyConfigs
    THEN Len(infraConfig.value) > 0
    ELSE IF infraConfig.name \in CallbackUrlConfigs
    THEN validateUrl(infraConfig.value)
    ELSE TRUE

RECURSIVE validateEnvValues(_)
validateEnvValues(infraConfigs) ==
    IF Len(infraConfigs) = 0 THEN EitherRight(TRUE)
    ELSE IF ~envValueAccepted(infraConfigs[1])
    THEN EitherLeft(INFRA_CONFIG_INVALID_INPUT)
    ELSE validateEnvValues(Tail(infraConfigs))

\* cast
cast(dbInfraConfig) ==
    [value |-> IF dbInfraConfig.value = Null THEN <<>>
               ELSE dbInfraConfig.value,
     name |-> dbInfraConfig.name]

\* prisma.infraConfig.update throws when the table has no row of the name.
rowExists(table, name) == name \in DOMAIN table

\* prisma.infraConfig.update({where: {name}, data: {value}})
rowUpdated(table, name, value) == [table EXCEPT ![name] = value]

\* The table with the writes of the first n statements of the transaction
\* of updateMany.
RECURSIVE transactionWrites(_, _, _)
transactionWrites(table, infraConfigs, n) ==
    IF n = 0 THEN table
    ELSE rowUpdated(transactionWrites(table, infraConfigs, n - 1),
                    infraConfigs[n].name, infraConfigs[n].value)

\* The transaction cannot commit: a row it has written is no longer in the
\* table.
transactionThrows(table, infraConfigs) ==
    \E i \in 1..Len(infraConfigs) : ~rowExists(table, infraConfigs[i].name)

INFRA_CONFIG_RESET_FAILED == "INFRA_CONFIG_RESET_FAILED"

DATABASE_TABLE_NOT_EXIST == "DATABASE_TABLE_NOT_EXIST"

INFRA_CONFIG_NOT_LISTED == "INFRA_CONFIG_NOT_LISTED"

IS_FIRST_TIME_INFRA_SETUP == "IS_FIRST_TIME_INFRA_SETUP"

\* The text 'true'.
TrueText == <<"t", "r", "u", "e">>

\* A call of the service that awaits the database: what was called, the
\* elements it works with (the argument of update and updateMany, the rows
\* to insert of initializeInfraConfigTable and reset), whether it stops the
\* app once its writes are made, the statement it awaits, and how many
\* statements of its transaction have been answered (updateMany).
ConfigTask(operation, infraConfigs, restartEnabled, phase) ==
    [phase |-> phase,
     infraConfigs |-> infraConfigs,
     operation |-> operation,
     restartEnabled |-> restartEnabled,
     done |-> 0]

\* A call run from one of its awaits to the next, or to its return: the
\* call as it awaits, or what it returned (a thrown error is a Left) and
\* whether it called stopApp on the way.
Awaits(task) ==
    [result |-> EitherRight(<<>>),
     task |-> task,
     returned |-> FALSE,
     stopApp |-> FALSE]

Returns(task, result, stopApp) ==
    [result |-> result,
     task |-> task,
     returned |-> TRUE,
     stopApp |-> stopApp]

\* The database has run a statement: the table it leaves and the call run
\* on from there.  A statement that throws leaves the table as it was.
Answered(table, step) == [table |-> table, step |-> step]

\* update(name, value, restartEnabled), up to its await of the statement or
\* to its return on invalid input.
update(name, value, restartEnabled) ==
    LET task == ConfigTask("update", <<InfraConfigArgs(name, value)>>,
                           restartEnabled, "statement")
    IN  IF validateEnvValues(task.infraConfigs)._tag = "Left"
        THEN Returns(task,
                     EitherLeft(validateEnvValues(task.infraConfigs).left),
                     FALSE)
        ELSE Awaits(task)

\* prisma.infraConfig.update has run for update: it throws, of itself
\* (error) or for want of the row, and the catch block returns; or the row
\* is written and the call is still to be resumed.
updateAnswered(table, task, error) ==
    IF error # "none" \/ ~rowExists(table, task.infraConfigs[1].name)
    THEN Answered(table,
                  Returns(task, EitherLeft(INFRA_CONFIG_UPDATE_FAILED), FALSE))
    ELSE Answered(rowUpdated(table, task.infraConfigs[1].name,
                             task.infraConfigs[1].value),
                  Awaits([task EXCEPT !.phase = "written"]))

\* Variant: only the first element is validated.
updateManyValidatesFirst(infraConfigs) ==
    LET task == ConfigTask("updateMany", infraConfigs, TRUE, "transaction")
    IN  IF Len(infraConfigs) > 0 /\ ~envValueAccepted(infraConfigs[1])
        THEN Returns(task, EitherLeft(INFRA_CONFIG_INVALID_INPUT), FALSE)
        ELSE Awaits(task)

\* updateMany(infraConfigs), up to the await of the first statement of its
\* transaction or to its return on invalid input.
updateMany(infraConfigs) ==
    LET task == ConfigTask("updateMany", infraConfigs, TRUE, "transaction")
    IN  IF validateEnvValues(infraConfigs)._tag = "Left"
        THEN Returns(task, EitherLeft(validateEnvValues(infraConfigs).left),
                     FALSE)
        ELSE Awaits(task)

\* What updateMany awaits has answered: the statement of the next element
\* (tx.infraConfig.update in the callback of the transaction) or, after the
\* last one, the commit.  A statement throws, of itself (error) or for want
\* of the row: the transaction is rolled back and the catch block returns.
\* The writes of the transaction reach the table when it commits, and the
\* call is then still to be resumed; statements of other calls are answered
\* in between.
updateManyAnswered(table, task, error) ==
    IF error # "none"
    THEN Answered(table,
                  Returns(task, EitherLeft(INFRA_CONFIG_UPDATE_FAILED), FALSE))
    ELSE IF task.done < Len(task.infraConfigs)
    THEN IF ~rowExists(table, task.infraConfigs[task.done + 1].name)
         THEN Answered(table,
                       Returns(task, EitherLeft(INFRA_CONFIG_UPDATE_FAILED),
                               FALSE))
         ELSE Answered(table, Awaits([task EXCEPT !.done = task.done + 1]))
    ELSE IF transactionThrows(table, task.infraConfigs)
    THEN Answered(table,
                  Returns(task, EitherLeft(INFRA_CONFIG_UPDATE_FAILED), FALSE))
    ELSE Answered(transactionWrites(table, task.infraConfigs,
                                    Len(task.infraConfigs)),
                  Awaits([task EXCEPT !.phase = "written"]))

\* Variant: every default row is to be inserted.
propsToInsertAll(infraConfigDefaultObjs, table) == infraConfigDefaultObjs

\* infraConfigDefaultObjs.filter((p) => !dbInfraConfigs.find(...)): the
\* default rows whose name the table does not have, in their order.
propsToInsert(infraConfigDefaultObjs, table) ==
    SelectSeq(infraConfigDefaultObjs, LAMBDA p : ~rowExists(table, p.name))

\* prisma.infraConfig.createMany({data}) throws when the table has a row of
\* one of the names (name is the unique key the rows are found by).
createManyThrows(table, data) ==
    \E i \in 1..Len(data) : rowExists(table, data[i].name)

\* prisma.infraConfig.createMany({data}): the table with the rows added.
createMany(table, data) ==
    [name \in DOMAIN table \cup {data[i].name : i \in 1..Len(data)} |->
        IF name \in DOMAIN table THEN table[name]
        ELSE data[CHOOSE i \in 1..Len(data) : data[i].name = name].value]

\* prisma.infraConfig.deleteMany({where: {name: {in: names}}})
deleteMany(table, data) ==
    [name \in DOMAIN table \ {data[i].name : i \in 1..Len(data)} |->
        table[name]]

\* The catch block of initializeInfraConfigTable: P1001 (the database
\* cannot be reached) is swallowed, P2021 (the table does not exist) and
\* every other error are thrown on.
seedingCaught(task, error) ==
    IF error = "P1001" THEN Returns(task, EitherRight(<<>>), FALSE)
    ELSE IF error = "P2021"
    THEN Returns(task, EitherLeft(DATABASE_TABLE_NOT_EXIST), FALSE)
    ELSE Returns(task, EitherLeft(error), FALSE)

\* initializeInfraConfigTable(), up to its await of getDefaultInfraConfigs.
initializeInfraConfigTable ==
    Awaits(ConfigTask("initializeInfraConfigTable", <<>>, TRUE, "defaults"))

\* What initializeInfraConfigTable awaits has answered, with an error or
\* without: getDefaultInfraConfigs (the lists are compared and findMany is
\* awaited), findMany (the rows to insert are those the table lacks as it is
\* read; with none the call returns) or createMany (the rows are written and
\* the call is still to be resumed).
initializeAnswered(table, task, enumValues, infraConfigDefaultObjs, error) ==
    IF error # "none" THEN Answered(table, seedingCaught(task, error))
    ELSE IF task.phase = "defaults"
    THEN IF Len(enumValues) # Len(infraConfigDefaultObjs)
         THEN Answered(table, seedingCaught(task, INFRA_CONFIG_NOT_LISTED))
         ELSE Answered(table, Awaits([task EXCEPT !.phase = "findMany"]))
    ELSE IF task.phase = "findMany"
    THEN IF Len(propsToInsert(infraConfigDefaultObjs, table)) > 0
         THEN Answered(table,
                       Awaits([task EXCEPT
                                  !.infraConfigs =
                                      propsToInsert(infraConfigDefaultObjs,
                                                    table),
                                  !.phase = "createMany"]))
         ELSE Answered(table, Returns(task, EitherRight(<<>>), FALSE))
    ELSE IF createManyThrows(table, task.infraConfigs)
    THEN Answered(table, seedingCaught(task, "P2002"))
    ELSE Answered(createMany(table, task.infraConfigs),
                  Awaits([task EXCEPT !.phase = "written"]))

\* reset(), up to its await of getDefaultInfraConfigs.
reset == Awaits(ConfigTask("reset", <<>>, TRUE, "defaults"))

\* The rows reset creates: the defaults, with 'true' for
\* IS_FIRST_TIME_INFRA_SETUP whatever its default is.
resetRows(infraConfigDefaultObjs) ==
    SelectSeq(infraConfigDefaultObjs,
              LAMBDA obj : obj.name # IS_FIRST_TIME_INFRA_SETUP)
        \o <<InfraConfigArgs(IS_FIRST_TIME_INFRA_SETUP, TrueText)>>

\* What reset awaits has answered: getDefaultInfraConfigs (deleteMany is
\* awaited), deleteMany (the rows of the default names are gone and
\* createMany is awaited) or createMany (the rows are written and the call
\* is still to be resumed); on an error the catch block returns.
resetAnswered(table, task, infraConfigDefaultObjs, error) ==
    IF error # "none"
    THEN Answered(table,
                  Returns(task, EitherLeft(INFRA_CONFIG_RESET_FAILED), FALSE))
    ELSE IF task.phase = "defaults"
    THEN Answered(table, Awaits([task EXCEPT !.phase = "deleteMany"]))
    ELSE IF task.phase = "deleteMany"
    THEN Answered(deleteMany(table, infraConfigDefaultObjs),
                  Awaits([task EXCEPT
                             !.infraConfigs = resetRows(infraConfigDefaultObjs),
                             !.phase = "createMany"]))
    ELSE IF createManyThrows(table, task.infraConfigs)
    THEN Answered(table,
                  Returns(task, EitherLeft(INFRA_CONFIG_RESET_FAILED), FALSE))
    ELSE Answered(createMany(table, task.infraConfigs),
                  Awaits([task EXCEPT !.phase = "written"]))

\* A call whose last write the database has made is resumed: it calls
\* stopApp (update: if restartEnabled) and returns.
resumed(task) ==
    IF task.operation = "update"
    THEN Returns(task, EitherRight(cast(task.infraConfigs[1])),
                 task.restartEnabled)
    ELSE IF task.operation = "updateMany"
    THEN Returns(task, EitherRight(task.infraConfigs), TRUE)
    ELSE IF task.operation = "reset"
    THEN Returns(task, EitherRight(TRUE), TRUE)
    ELSE Returns(task, EitherRight(<<>>), TRUE)

\* A call of the service that has returned, as the properties see it: what
\* was called, the elements it worked with, and what it returned.
ConfigCall(operation, infraConfigs, result) ==
    [result |-> result,
     infraConfigs |-> infraConfigs,
     operation |-> operation]

\* No call has returned in the last step.
NoConfigCall == ConfigCall("none", <<>>, EitherRight(<<>>))

----------------------------------------------------------------------------
(* WorkspaceRESTCollectionTreeAdapter (helpers/adapters) *)

\* ChildrenResult: {status: "loading"} and {status: "loaded", data}.
LoadingResult == [data |-> <<>>,
                  status |-> "loading"]

LoadedResult(data) == [data |-> data,
                       status |-> "loaded"]

\* getChildren has not returned a result.
NoResult == [data |-> <<>>,
             status |-> "none"]

\* A collection of the root view, and the value of an item of a children
\* view: a request has a requestID, a collection a collectionID.
ViewValue(requestID, collectionID) ==
    [requestID |-> requestID, collectionID |-> collectionID]

\* RESTCollectionViewItem
ViewItem(type, value) == [type |-> type, value |-> value]

\* The value of a handle that is ok, with the loading flag and the content
\* (the collections, for the root view) of its view, and of one that is not.
OkHandle(loading, content) ==
    [type |-> "ok",
     content |-> content,
     loading |-> loading]

InvalidHandle == [type |-> "invalid",
                  content |-> <<>>,
                  loading |-> FALSE]

\* The service has handed out no view handle.
NoHandle == [type |-> "none",
             content |-> <<>>,
             loading |-> FALSE]

\* The entry of an item of a children view.
childEntry(item) ==
    [data |-> item,
     id |-> IF item.type = "request" THEN item.value.requestID
            ELSE item.value.collectionID]

\* The entry of a collection of the root view.
rootEntry(coll) ==
    [data |-> ViewItem("collection", coll),
     id |-> coll.collectionID]

\* content.value.map(...) and collections.value.map(...)
childrenData(nodeID, content) ==
    [i \in 1..Len(content) |->
        IF nodeID # Null THEN childEntry(content[i])
        ELSE rootEntry(content[i])]

\* The effect as it would be if it put the result back to loading when the
\* handle is not ok.
viewEffectResetsOnInvalid(result, nodeID, handle) ==
    IF handle.type # "ok" THEN LoadingResult
    ELSE IF handle.loading THEN LoadingResult
    ELSE LoadedResult(childrenData(nodeID, handle.content))

\* The function handed to watchEffect: result.value after a run of it.
viewEffect(result, nodeID, handle) ==
    IF handle.type # "ok" THEN result
    ELSE IF handle.loading THEN LoadingResult
    ELSE LoadedResult(childrenData(nodeID, handle.content))

\* How far a call of getChildren(nodeID) has run: "none" (not called),
\* "raised" (it threw), "handle" (awaiting getCollectionHandle), "view"
\* (awaiting the view), "failed" (the async part threw on a Left),
\* "watching" (the effect is set up); pending: a value the effect read has
\* changed and the effect has not run again yet.
ChildrenCall(phase, nodeID, pending) ==
    [phase |-> phase,
     nodeID |-> nodeID,
     pending |-> pending]

NoChildrenCall == ChildrenCall("none", Null, FALSE)

\* getChildren up to its return.
getChildren(handleType, nodeID) ==
    IF handleType # "ok" THEN ChildrenCall("raised", nodeID, FALSE)
    ELSE IF nodeID # Null THEN ChildrenCall("handle", nodeID, FALSE)
    ELSE ChildrenCall("view", nodeID, FALSE)

----------------------------------------------------------------------------
(* Collection store: reordering a sibling list *)

\* The list with the item at lastIndex taken out and put back in front of the
\* item that stood at newIndex (at the end when newIndex is the list length).
reorderItems(list, lastIndex, newIndex) ==
    LET item == list[lastIndex + 1]
        rest == SubSeq(list, 1, lastIndex) \o SubSeq(list, lastIndex + 2, Len(list))
        to   == IF newIndex > lastIndex THEN newIndex - 1 ELSE newIndex
    IN  SubSeq(rest, 1, to) \o <<item>> \o SubSeq(rest, to + 1, Len(rest))

----------------------------------------------------------------------------
(* Inputs *)

\* The path spelled by a sequence of sibling positions: <<0, 10>> is "0/10".
RECURSIVE PathOf(_)
PathOf(positions) ==
    IF positions = <<>> THEN <<>>
    ELSE IF Len(positions) = 1 THEN toString(positions[1])
    ELSE slashJoin(PathOf(SubSeq(positions, 1, Len(positions) - 1)),
                   toString(positions[Len(positions)]))

\* Folders that open tabs are saved under.
TabFolderPaths ==
    {PathOf(p) : p \in {<<0>>, <<1>>, <<MaxIndex>>,
                        <<0, 1>>, <<0, 2>>, <<0, MaxIndex>>, <<0, 1, 2>>}}

\* Positions of the requests that open tabs are saved as.
TabRequestIndexes == {2}

OpenableContexts ==
    {NullContext, TeamCollectionContext(<<"c">>, <<"r">>)}
    \cup {UserCollectionContext(f, i) :
              f \in TabFolderPaths, i \in TabRequestIndexes}
    \cup {WorkspaceUserCollectionContext(f, slashJoin(f, toString(i))) :
              f \in TabFolderPaths, i \in TabRequestIndexes}

\* Folder paths of the payloads: the folder whose requests, or whose
\* sub-folders, are reordered ("" is the root).
RequestFolderPaths == {PathOf(<<0>>), PathOf(<<0, 1>>)}

CollectionFolderPaths == {<<>>, PathOf(<<0>>)}

\* Sibling positions of the payloads.
PayloadIndexes == {0, 1, 2, 3, MaxIndex}

\* Sibling counts handed over on a deletion, for a list that had
\* MaxIndex + 1 siblings: the count after, or before, the sibling is taken out.
PayloadLengths == {MaxIndex, MaxIndex + 1}

\* The config names of the calls: one of each kind of validation, and one
\* that is not validated.
ConfigNames ==
    {"MAILER_SMTP_URL", "MAILER_ADDRESS_FROM", "GOOGLE_CLIENT_ID",
     "GOOGLE_CALLBACK_URL", "ALLOW_ANALYTICS_COLLECTION",
     "IS_FIRST_TIME_INFRA_SETUP"}

\* The value every row is seeded with.
SeededValue == <<"e", "n", "v">>

\* Object.values(InfraConfigEnum): the names, in the order of the enum.
InfraConfigEnumValues ==
    <<"MAILER_SMTP_URL", "MAILER_ADDRESS_FROM", "GOOGLE_CLIENT_ID",
      "GOOGLE_CALLBACK_URL", "ALLOW_ANALYTICS_COLLECTION",
      "IS_FIRST_TIME_INFRA_SETUP">>

\* getDefaultInfraConfigs(): a default row for each name of the enum.
DefaultInfraConfigs ==
    [i \in 1..Len(InfraConfigEnumValues) |->
        InfraConfigArgs(InfraConfigEnumValues[i], SeededValue)]

\* The table once the service is initialised: a row for each name.
SeededTable == [name \in ConfigNames |-> SeededValue]

SmtpUrlValue == <<"s", "m", "t", "p", "s", ":", "/", "/", "h">>

EmailValue == <<"a", "@", "b", ".", "c">>

HttpUrlValue == <<"h", "t", "t", "p", ":", "/", "/", "h">>

HostValue == <<"h">>

\* The elements of the calls: for each validated name a value that passes
\* and one that does not.
ConfigPairs ==
    {InfraConfigArgs("MAILER_SMTP_URL", SmtpUrlValue),
     InfraConfigArgs("MAILER_SMTP_URL", HostValue),
     InfraConfigArgs("MAILER_ADDRESS_FROM", EmailValue),
     InfraConfigArgs("MAILER_ADDRESS_FROM", HostValue),
     InfraConfigArgs("GOOGLE_CLIENT_ID", HostValue),
     InfraConfigArgs("GOOGLE_CLIENT_ID", <<>>),
     InfraConfigArgs("GOOGLE_CALLBACK_URL", HttpUrlValue),
     InfraConfigArgs("GOOGLE_CALLBACK_URL", HostValue),
     InfraConfigArgs("ALLOW_ANALYTICS_COLLECTION", <<>>)}

\* The arguments of updateMany: up to MaxBatch elements.
ConfigBatches == UNION {[1..n -> ConfigPairs] : n \in 0..MaxBatch}

\* The elements of the calls made once a call has been made: a value that
\* passes and two that do not.
FollowingPairs ==
    {InfraConfigArgs("GOOGLE_CLIENT_ID", HostValue),
     InfraConfigArgs("MAILER_ADDRESS_FROM", HostValue),
     InfraConfigArgs("MAILER_SMTP_URL", HostValue)}

\* The arguments of updateMany once a call has been made: one of the
\* elements, or the one that passes before one that does not.
FollowingBatches ==
    {<<infraConfig>> : infraConfig \in FollowingPairs}
    \cup {<<InfraConfigArgs("GOOGLE_CLIENT_ID", HostValue),
             InfraConfigArgs("MAILER_SMTP_URL", HostValue)>>}

\* The errors the database answers a statement with ("none": it runs it).
DatabaseErrors == {"none", "P1001", "P2021", "P2002"}

\* The nodes getChildren is called for: the root and a collection.
TreeNodeIDs == {Null, <<"c">>}

\* What a view shows of a collection: requests and sub-collections in
\* either order.
ChildrenContents ==
    {<<>>,
     <<ViewItem("request", ViewValue(<<"r">>, <<>>))>>,
     <<ViewItem("request", ViewValue(<<"r">>, <<>>)),
       ViewItem("collection", ViewValue(<<>>, <<"d">>))>>,
     <<ViewItem("collection", ViewValue(<<>>, <<"d">>)),
       ViewItem("request", ViewValue(<<"r">>, <<>>))>>}

\* What the root view shows: collections.
RootContents ==
    {<<>>,
     <<ViewValue(<<>>, <<"c">>)>>,
     <<ViewValue(<<>>, <<"c">>), ViewValue(<<>>, <<"d">>)>>,
     <<ViewValue(<<>>, <<"d">>), ViewValue(<<>>, <<"c">>)>>}

\* The values the view handle of a node can have.
ViewHandles(nodeID) ==
    {InvalidHandle}
    \cup {OkHandle(loading, content) :
              loading \in BOOLEAN,
              content \in IF nodeID # Null THEN ChildrenContents
                          ELSE RootContents}

----------------------------------------------------------------------------
(* State machine *)

\* No resolver has been called.
ResolversIdle ==
    /\ op = IdleOp
    /\ before = <<>>
    /\ affectedIndexes = EmptyMap
    /\ requests = <<>>
    /\ addressed = <<>>

\* No inherited properties have been cached or propagated.
PropagatorIdle ==
    /\ inheritedProperties = <<>>
    /\ propagation = IdlePropagation
    /\ inheritedBefore = <<>>

\* No sweep has been started.
SweepIdle ==
    /\ sweeps = EmptyBag
    /\ response = IdleResponse

\* No file has been selected for import.
ImporterIdle ==
    /\ importFiles = <<>>
    /\ importCall = NoImportCall
    /\ importResult = NotImported

\* getChildren has not been called.
TreeIdle ==
    /\ workspaceHandle = "ok"
    /\ viewHandle = NoHandle
    /\ childrenCall = NoChildrenCall
    /\ childrenResult = NoResult

\* The config table is as seeded and the service has not been called.
ConfigIdle ==
    /\ configTable = SeededTable
    /\ appStopping = FALSE
    /\ configCalls = EmptyBag
    /\ configCallsMade = 0
    /\ configCall = NoConfigCall

\* updateSaveContextForAffectedRequests has not been called.
RelocationIdle == relocation = NoRelocation

OutsideResolversIdle ==
    /\ PropagatorIdle
    /\ SweepIdle
    /\ ImporterIdle
    /\ ConfigIdle
    /\ TreeIdle
    /\ RelocationIdle

Init ==
    /\ tabs = <<>>
    /\ op = IdleOp
    /\ before = <<>>
    /\ affectedIndexes = EmptyMap
    /\ requests = <<>>
    /\ addressed = <<>>
    /\ OutsideResolversIdle

\* A request is opened in a new tab.
OpenTab ==
    /\ op.kind = "idle"
    /\ Len(tabs) < MaxTabs
    /\ \E ctx \in OpenableContexts : tabs' = Append(tabs, Tab(ctx, FALSE))
    /\ UNCHANGED <<op, before, affectedIndexes, requests, addressed>>
    /\ UNCHANGED outsideResolvers

\* One call of resolveSaveContextOnRequestReorder, observed.
RequestResolver(payload) ==
    /\ tabs' = resolveSaveContextOnRequestReorder(tabs, payload)
    /\ op' = payload
    /\ before' = tabs
    /\ affectedIndexes' = IF requestReturnsEarly(payload) THEN EmptyMap
                          ELSE requestAffectedIndexes(payload)
    /\ UNCHANGED <<requests, addressed>>
    /\ UNCHANGED outsideResolvers

\* A request is dragged to another position of its folder.
RequestReorder ==
    \E f \in RequestFolderPaths, lastIndex \in PayloadIndexes,
       newIndex \in PayloadIndexes \cup {MaxIndex + 1} :
        /\ op.kind = "idle"
        /\ RequestResolver(Payload("request", f, lastIndex, newIndex, 0, "remove"))

\* A request is deleted: the resolver is called with newIndex = -1.
RequestRemove ==
    \E f \in RequestFolderPaths, lastIndex \in PayloadIndexes,
       length \in PayloadLengths :
        /\ op.kind = "idle"
        /\ RequestResolver(Payload("request", f, lastIndex, -1, length, "remove"))

\* One call of resolveSaveContextOnCollectionReorder, observed.
CollectionResolver(payload) ==
    /\ tabs' = resolveSaveContextOnCollectionReorder(tabs, payload)
    /\ op' = payload
    /\ before' = tabs
    /\ affectedIndexes' = IF collectionReturnsEarly(payload) THEN EmptyMap
                          ELSE collectionAffectedIndexes(payload)
    /\ UNCHANGED <<requests, addressed>>
    /\ UNCHANGED outsideResolvers

\* A folder is dragged to another position among its siblings.
CollectionReorder ==
    \E f \in CollectionFolderPaths, lastIndex \in PayloadIndexes,
       newIndex \in PayloadIndexes \cup {MaxIndex + 1} :
        /\ op.kind = "idle"
        /\ CollectionResolver(
               Payload("collection", f, lastIndex, newIndex, 0, "remove"))

\* A folder is deleted.
CollectionRemove ==
    \E f \in CollectionFolderPaths, lastIndex \in PayloadIndexes,
       length \in PayloadLengths :
        /\ op.kind = "idle"
        /\ CollectionResolver(
               Payload("collection", f, lastIndex, -1, length, "remove"))

\* A folder is dropped into another folder: it leaves its sibling list.
CollectionDrop ==
    \E f \in CollectionFolderPaths, lastIndex \in PayloadIndexes,
       length \in PayloadLengths :
        /\ op.kind = "idle"
        /\ CollectionResolver(
               Payload("collection", f, lastIndex, -1, length, "drop"))

Next ==
    \/ OpenTab
    \/ RequestReorder
    \/ RequestRemove
    \/ CollectionReorder
    \/ CollectionRemove
    \/ CollectionDrop

Spec == Init /\ [][Next]_vars

----------------------------------------------------------------------------
(* Request moves against the collection store *)

\* The folder whose request list is tracked.
MovesFolder == PathOf(<<0>>)

\* A folder next to it, whose requests are never moved.
OtherFolder == PathOf(<<0, 1>>)

InitMoves ==
    /\ tabs = <<>>
    /\ op = IdleOp
    /\ before = <<>>
    /\ affectedIndexes = EmptyMap
    /\ requests = [i \in 1..MaxRequests |-> i]
    /\ addressed = <<>>
    /\ OutsideResolversIdle

\* The request at some position of either folder is opened in a new tab; the
\* requests of OtherFolder carry the ids above MaxRequests.
OpenRequestTab ==
    /\ Len(tabs) < MaxTabs
    /\ \E index \in 0..(MaxRequests - 1) :
          \/ /\ tabs' = Append(tabs,
                    Tab(UserCollectionContext(MovesFolder, index), FALSE))
             /\ addressed' = Append(addressed,
                    [index |-> index, request |-> requests[index + 1]])
          \/ /\ tabs' = Append(tabs,
                    Tab(UserCollectionContext(OtherFolder, index), FALSE))
             /\ addressed' = Append(addressed,
                    [index |-> index, request |-> MaxRequests + index + 1])
    /\ UNCHANGED <<op, before, affectedIndexes, requests>>
    /\ UNCHANGED outsideResolvers

\* A request of MovesFolder is dragged in front of the request at newIndex
\* (newIndex = the list length: to the end): the store reorders the list and
\* the handler calls resolveSaveContextOnRequestReorder.
MoveRequest ==
    \E lastIndex \in 0..(MaxRequests - 1), newIndex \in 0..MaxRequests :
        LET payload ==
                Payload("request", MovesFolder, lastIndex, newIndex, 0, "remove")
        IN  /\ requests' = reorderItems(requests, lastIndex, newIndex)
            /\ tabs' = resolveSaveContextOnRequestReorder(tabs, payload)
            /\ UNCHANGED <<op, before, affectedIndexes, addressed>>
            /\ UNCHANGED outsideResolvers

NextMoves ==
    \/ OpenRequestTab
    \/ MoveRequest

SpecMoves == InitMoves /\ [][NextMoves]_vars

----------------------------------------------------------------------------
(* Propagation of inherited properties to the open tabs *)

\* The prefixes of a path that end at a segment boundary: the folder itself
\* and its ancestors, the root-level one first.
Ancestors(path) ==
    {SubSeq(path, 1, n) : n \in {m \in 1..Len(path) :
                                     m = Len(path) \/ path[m + 1] = "/"}}

\* Save contexts of the tabs the propagation is observed on.
InheritTabContexts ==
    {NullContext,
     TeamCollectionContext(<<"c">>, <<"r">>),
     UserCollectionContext(PathOf(<<0, 1>>), 2),
     UserCollectionContext(PathOf(<<0, MaxIndex>>), 2),
     UserCollectionContext(PathOf(<<0, 1, 2>>), 2),
     WorkspaceUserCollectionContext(PathOf(<<0, 1>>), PathOf(<<0, 1, 2>>))}

\* The folder (or collection) a save context lies in; a tab without save
\* context may still carry the properties of the folder it was opened from.
ContextFolder(ctx) ==
    IF ctx.originLocation = "user-collection" THEN ctx.folderPath
    ELSE IF ctx.originLocation = "null" THEN PathOf(<<0>>)
    ELSE ctx.collectionID

\* Header lists a folder hands down: keys are unique within a list, entries
\* come from the folder or its ancestors, the nearer the root the earlier.
HeaderLists(folder, value) ==
    {<<>>}
    \cup {<<InheritedHeader(a, Header("a", value))>> : a \in Ancestors(folder)}
    \cup {<<InheritedHeader(folder, Header("b", value))>>}
    \cup {<<InheritedHeader(a, Header("a", "old")),
            InheritedHeader(folder, Header("b", value))>> :
               a \in Ancestors(folder) \ {folder}}

\* What a tab opened from a folder may have cached: nothing, or an auth from
\* the folder or an ancestor and a header list of the folder.
CachedProperties(ctx) ==
    {UndefinedProperties}
    \cup {InheritedProperties(InheritedAuth(a, "old"), h) :
              a \in Ancestors(ContextFolder(ctx)),
              h \in HeaderLists(ContextFolder(ctx), "old")}

\* Folders whose auth or headers are edited, and the collection id "c".
PropagationPaths ==
    {PathOf(<<0>>), PathOf(<<0, 1>>), PathOf(<<0, 1, 2>>), <<"c">>}

\* The snapshot computed for an edited folder.
Snapshots(path) ==
    {InheritedProperties(InheritedAuth(path, "new"), h) :
        h \in HeaderLists(path, "new")}

InitInherit ==
    /\ tabs = <<>>
    /\ inheritedProperties = <<>>
    /\ propagation = IdlePropagation
    /\ inheritedBefore = <<>>
    /\ ResolversIdle
    /\ RelocationIdle
    /\ SweepIdle
    /\ ImporterIdle
    /\ ConfigIdle
    /\ TreeIdle

\* A request is opened in a new tab, with the properties it inherits.
OpenInheritTab ==
    /\ ~propagation.called
    /\ Len(tabs) < MaxInheritTabs
    /\ \E ctx \in InheritTabContexts : \E cached \in CachedProperties(ctx) :
          /\ tabs' = Append(tabs, Tab(ctx, FALSE))
          /\ inheritedProperties' = Append(inheritedProperties, cached)
    /\ UNCHANGED <<propagation, inheritedBefore, outsidePropagator>>

\* One call of updateInheritedPropertiesForAffectedRequests, observed.
Propagate ==
    /\ ~propagation.called
    /\ \E path \in PropagationPaths, workspace \in {"personal", "team"} :
       \E snapshot \in Snapshots(path) :
          /\ inheritedProperties' =
                 updateInheritedPropertiesForAffectedRequests(
                     tabs, inheritedProperties, path, snapshot, workspace)
          /\ propagation' = Propagation(path, snapshot, workspace)
    /\ inheritedBefore' = inheritedProperties
    /\ UNCHANGED <<tabs, outsidePropagator>>

NextInherit ==
    \/ OpenInheritTab
    \/ Propagate

SpecInherit == InitInherit /\ [][NextInherit]_vars

----------------------------------------------------------------------------
(* The team reconciliation sweep among other UI events *)

\* Save contexts of the tabs opened while sweeps run.
SweepTabContexts ==
    {TeamCollectionContext(<<"c">>, <<"r">>),
     TeamCollectionContext(<<"c">>, <<"s">>),
     UserCollectionContext(PathOf(<<0>>), 2)}

\* Save contexts a tab is saved to anew: another team request, or a request
\* of a personal collection.
SaveAsContexts ==
    {TeamCollectionContext(<<"c">>, <<"s">>),
     UserCollectionContext(PathOf(<<0>>), 2)}

\* What the backend answers to a lookup.
LookupResults == {"null", "found", "left"}

InitSweep ==
    /\ tabs = <<>>
    /\ sweeps = EmptyBag
    /\ response = IdleResponse
    /\ ResolversIdle
    /\ RelocationIdle
    /\ PropagatorIdle
    /\ ImporterIdle
    /\ ConfigIdle
    /\ TreeIdle

\* A request is opened in a new tab.
OpenSweepTab ==
    /\ Len(tabs) < MaxTabs
    /\ \E ctx \in SweepTabContexts : tabs' = Append(tabs, Tab(ctx, FALSE))
    /\ response' = IdleResponse
    /\ UNCHANGED <<sweeps, outsideSweep>>

\* The user saves the request of a tab to another place.
SaveTabAs ==
    /\ \E i \in 1..Len(tabs), ctx \in SaveAsContexts :
          /\ tabs[i].saveContext # ctx
          /\ tabs' = [tabs EXCEPT ![i] = Tab(ctx, FALSE)]
    /\ response' = IdleResponse
    /\ UNCHANGED <<sweeps, outsideSweep>>

\* resetTeamRequestsContext is called and runs up to its first await, or
\* returns at once when no tab has a team-collection save context.
StartSweep ==
    /\ BagCardinality(sweeps) < MaxSweeps
    /\ sweeps' = IF startSweep(tabs).refs = <<>> THEN sweeps
                  ELSE sweeps (+) SetToBag({startSweep(tabs)})
    /\ response' = IdleResponse
    /\ UNCHANGED <<tabs, outsideSweep>>

\* The lookup a call awaits is answered: the call handles the response and
\* runs up to its next await, or returns.
SweepResponse ==
    /\ \E sweep \in BagToSet(sweeps), result \in LookupResults :
          /\ sweep.at <= Len(sweep.refs)
          /\ tabs' = tabsAfterResponse(tabs, sweep, result)
          /\ sweeps' =
                 IF sweepAfterResponse(tabs, sweep, result).refs = <<>>
                 THEN sweeps (-) SetToBag({sweep})
                 ELSE (sweeps (-) SetToBag({sweep}))
                          (+) SetToBag({sweepAfterResponse(tabs, sweep, result)})
          /\ response' = Response(sweep.refs[sweep.at], result,
                                  sweep.requestID, tabs[sweep.refs[sweep.at]])
    /\ UNCHANGED outsideSweep

NextSweep ==
    \/ OpenSweepTab
    \/ SaveTabAs
    \/ StartSweep
    \/ SweepResponse

SpecSweep == InitSweep /\ [][NextSweep]_vars

----------------------------------------------------------------------------
(* Import of Insomnia files *)

\* Texts with and without the Insomnia templating.
TemplatedText == <<"{", "{", " ", "_", ".", "v", " ", "}", "}">>

ContentTypeCapitalised ==
    <<"C", "o", "n", "t", "e", "n", "t", "-", "T", "y", "p", "e">>

ImagePng == <<"i", "m", "a", "g", "e", "/", "p", "n", "g">>

ApplicationGraphql ==
    <<"a", "p", "p", "l", "i", "c", "a", "t", "i", "o", "n", "/",
      "g", "r", "a", "p", "h", "q", "l">>

\* Authentications of the imported requests: none, each known type with its
\* fields unset and set, and types the importer does not know.
ImportAuthentications ==
    {NoAuthentication}
    \cup {InsoReqAuth("basic", "undefined", u, p, Undefined, Undefined,
                      Undefined, Undefined, Undefined) :
              u \in {Undefined, TemplatedText}, p \in {Undefined, <<"p">>}}
    \cup {InsoReqAuth("oauth2", d, Undefined, Undefined, a, Undefined, c,
                      Undefined, Undefined) :
              d \in {"undefined", "true"}, a \in {Undefined, <<"a">>},
              c \in {Undefined, TemplatedText}}
    \cup {InsoReqAuth("bearer", "true", Undefined, Undefined, Undefined,
                      Undefined, Undefined, Undefined, t) :
              t \in {Undefined, <<"t">>}}
    \cup {InsoReqAuth(type, "undefined", <<"u">>, Undefined, Undefined,
                      Undefined, Undefined, Undefined, <<"t">>) :
              type \in {"digest", "undefined"}}

\* Bodies of the imported requests.
ImportBodies ==
    {InsoReqBody("undefined", Undefined, Undefined, <<>>),
     InsoReqBody("string", Undefined, <<"x">>, <<>>),
     InsoReqBody("object", MultipartFormData, Undefined,
                 <<InsoParam(<<"k">>, Undefined, "undefined")>>),
     InsoReqBody("object", FormUrlencoded, Undefined,
                 <<InsoParam(<<"k">>, <<"v">>, "undefined"),
                   InsoParam(<<"l">>, TemplatedText, "true")>>),
     InsoReqBody("object", ApplicationJson, <<"1">>, <<>>),
     InsoReqBody("object", Undefined, <<"x">>, <<>>),
     InsoReqBody("object", ImagePng, <<"x">>, <<>>),
     InsoReqBody("object", ApplicationGraphql, Undefined, <<>>)}

\* A resource of a document: a workspace, a folder or a request.
FolderResource(_type, _id, parentId, name) ==
    [headers |-> <<>>,
     authentication |-> NoAuthentication,
     name |-> name,
     body |-> InsoReqBody("undefined", Undefined, Undefined, <<>>),
     parameters |-> <<>>,
     method |-> Undefined,
     url |-> Undefined,
     _type |-> _type,
     parentId |-> parentId,
     _id |-> _id]

RequestResource(_id, parentId, authentication, body, headers) ==
    [headers |-> headers,
     authentication |-> authentication,
     name |-> Undefined,
     body |-> body,
     parameters |-> <<InsoParam(<<"q">>, Undefined, "undefined")>>,
     method |-> <<"g", "e", "t">>,
     url |-> TemplatedText,
     _type |-> "request",
     parentId |-> parentId,
     _id |-> _id]

\* The requests of the imported documents: every authentication with one
\* body, and every body with no authentication, without and with a
\* Content-Type header.
ImportRequests ==
    {RequestResource(<<"r">>, <<"w">>, a,
                     InsoReqBody("undefined", Undefined, Undefined, <<>>),
                     <<>>) : a \in ImportAuthentications}
    \cup {RequestResource(<<"r">>, <<"w">>, NoAuthentication, b, <<>>) :
              b \in ImportBodies}
    \cup {RequestResource(<<"r">>, <<"w">>, NoAuthentication,
              InsoReqBody("string", Undefined, <<"x">>, <<>>),
              <<InsoParam(ContentTypeCapitalised, ApplicationJson,
                          "undefined")>>)}

\* The files offered for import: one that does not parse, one workspace with
\* one request, and one document of two top-level folders, the second with
\* a folder in it.
ImportableFiles ==
    {[resources |-> <<>>,
      parses |-> FALSE]}
    \cup {[resources |-> <<FolderResource("workspace", <<"w">>, Null, <<"W">>),
                           r>>,
           parses |-> TRUE] : r \in ImportRequests}
    \cup {[resources |->
               <<FolderResource("request_group", <<"f">>, Null, <<"F">>),
                 FolderResource("request_group", <<"g">>, <<"w">>, Undefined),
                 FolderResource("workspace", <<"w">>, Null, <<"W">>),
                 RequestResource(<<"r">>, <<"g">>, NoAuthentication,
                     InsoReqBody("object", ImagePng, <<"x">>, <<>>), <<>>),
                 RequestResource(<<"s">>, <<"f">>,
                     InsoReqAuth("basic", "undefined", Undefined, Undefined,
                                 Undefined, Undefined, Undefined, Undefined,
                                 Undefined),
                     InsoReqBody("undefined", Undefined, Undefined, <<>>),
                     <<>>)>>,
           parses |-> TRUE]}

InitImport ==
    /\ tabs = <<>>
    /\ importFiles = <<>>
    /\ importCall = NoImportCall
    /\ importResult = NotImported
    /\ ResolversIdle
    /\ RelocationIdle
    /\ PropagatorIdle
    /\ SweepIdle
    /\ ConfigIdle
    /\ TreeIdle

\* The user adds a file to the ones to import, before the import or while
\* it runs.
SelectFile ==
    /\ importResult._tag = "none"
    /\ Len(importFiles) < MaxFiles
    /\ \E content \in ImportableFiles :
          importFiles' = Append(importFiles, content)
    /\ UNCHANGED <<importCall, importResult, outsideImporter>>

\* hoppInsomniaImporter is called with the files selected so far and runs up
\* to its first await; of no file it returns at once.
Import ==
    /\ importCall.phase = "none"
    /\ importCall' = hoppInsomniaImporter(importFiles)
    /\ importResult' = IF hoppInsomniaImporter(importFiles).phase = "returned"
                       THEN importResultOf(hoppInsomniaImporter(importFiles))
                       ELSE importResult
    /\ UNCHANGED <<importFiles, outsideImporter>>

\* convert answers for the file the call awaits: the call goes on to its
\* next await, or returns.
ConvertAnswers ==
    /\ importCall.phase = "converting"
    /\ importCall' = convertAnswered(importCall)
    /\ importResult' = IF convertAnswered(importCall).phase = "returned"
                       THEN importResultOf(convertAnswered(importCall))
                       ELSE importResult
    /\ UNCHANGED <<importFiles, outsideImporter>>

NextImport ==
    \/ SelectFile
    \/ Import
    \/ ConvertAnswers

SpecImport == InitImport /\ [][NextImport]_vars

----------------------------------------------------------------------------
(* Calls of the infra config service *)

InitConfig ==
    /\ tabs = <<>>
    /\ configTable = SeededTable
    /\ appStopping = FALSE
    /\ configCalls = EmptyBag
    /\ configCallsMade = 0
    /\ configCall = NoConfigCall
    /\ ResolversIdle
    /\ RelocationIdle
    /\ PropagatorIdle
    /\ SweepIdle
    /\ ImporterIdle
    /\ TreeIdle

\* The calls in flight once a call has run a step: with it, if it awaits.
callsAfter(calls, step) ==
    IF step.returned THEN calls ELSE calls (+) SetToBag({step.task})

\* The call that returned in a step, if one did.
callReturned(step) ==
    IF step.returned
    THEN ConfigCall(step.task.operation, step.task.infraConfigs, step.result)
    ELSE NoConfigCall

\* The database has run the statement a call awaits.
statementAnswered(table, task, error) ==
    IF task.operation = "update" THEN updateAnswered(table, task, error)
    ELSE IF task.operation = "updateMany"
    THEN updateManyAnswered(table, task, error)
    ELSE IF task.operation = "reset"
    THEN resetAnswered(table, task, DefaultInfraConfigs, error)
    ELSE initializeAnswered(table, task, InfraConfigEnumValues,
                            DefaultInfraConfigs, error)

\* updateMany is called, while other calls await the database or not: it
\* returns at once on invalid input and otherwise awaits the first
\* statement of its transaction.
\* The first call made takes any of the batches.
UpdateMany ==
    /\ configCallsMade < MaxConfigCalls
    /\ \E infraConfigs \in
            IF configCallsMade = 0 THEN ConfigBatches ELSE FollowingBatches :
          /\ configCalls' = callsAfter(configCalls, updateMany(infraConfigs))
          /\ configCall' = callReturned(updateMany(infraConfigs))
    /\ configCallsMade' = configCallsMade + 1
    /\ UNCHANGED <<configTable, appStopping, outsideConfig>>

\* update is called, by toggleAnalyticsCollection without restart or by
\* enableAndDisableSSO with it, while other calls await the database or
\* not.  The first call made takes any of the elements.
Update ==
    /\ configCallsMade < MaxConfigCalls
    /\ \E infraConfig \in
            IF configCallsMade = 0 THEN ConfigPairs ELSE FollowingPairs :
        \E restartEnabled \in BOOLEAN :
            LET step == update(infraConfig.name, infraConfig.value,
                               restartEnabled)
            IN  /\ configCalls' = callsAfter(configCalls, step)
                /\ configCall' = callReturned(step)
    /\ configCallsMade' = configCallsMade + 1
    /\ UNCHANGED <<configTable, appStopping, outsideConfig>>

\* reset is called, while other calls await the database or not.
Reset ==
    /\ configCallsMade < MaxConfigCalls
    /\ configCalls' = callsAfter(configCalls, reset)
    /\ configCall' = callReturned(reset)
    /\ configCallsMade' = configCallsMade + 1
    /\ UNCHANGED <<configTable, appStopping, outsideConfig>>

\* The database answers what one of the calls in flight awaits, and the call
\* runs on: to its next await, to its return from the catch block, or, its
\* writes made, to where it waits to be resumed.
DatabaseAnswers ==
    /\ \E task \in BagToSet(configCalls) :
        \E error \in DatabaseErrors :
            LET answered == statementAnswered(configTable, task, error)
            IN  /\ task.phase # "written"
                /\ configTable' = answered.table
                /\ configCalls' =
                       callsAfter(configCalls (-) SetToBag({task}),
                                  answered.step)
                /\ configCall' = callReturned(answered.step)
                /\ appStopping' = (appStopping \/ answered.step.stopApp)
    /\ UNCHANGED <<configCallsMade, outsideConfig>>

\* A call whose writes the database has made is resumed: it calls stopApp
\* and returns.
CallResumes ==
    /\ \E task \in BagToSet(configCalls) :
          /\ task.phase = "written"
          /\ configCalls' = configCalls (-) SetToBag({task})
          /\ configCall' = callReturned(resumed(task))
          /\ appStopping' = (appStopping \/ resumed(task).stopApp)
    /\ UNCHANGED <<configTable, configCallsMade, outsideConfig>>

NextConfig ==
    \/ UpdateMany
    \/ Update
    \/ Reset
    \/ DatabaseAnswers
    \/ CallResumes

SpecConfig == InitConfig /\ [][NextConfig]_vars

----------------------------------------------------------------------------
(* Seeding of the infra config table when the backend starts *)

\* The tables the backend can find when it starts: of every name the row is
\* missing (a fresh database, or a name added by an upgrade), as seeded, or
\* updated since; the table that misses no row is the one a seeding leaves.
FoundTables ==
    UNION {[names -> {SeededValue, HostValue}] :
              names \in (SUBSET ConfigNames) \ {ConfigNames}}

\* The default rows the table has no row for.
MissingDefaults(table) ==
    {i \in 1..Len(DefaultInfraConfigs) :
        ~rowExists(table, DefaultInfraConfigs[i].name)}

InitSeed ==
    /\ tabs = <<>>
    /\ configTable \in FoundTables
    /\ appStopping = FALSE
    /\ configCalls = EmptyBag
    /\ configCallsMade = 0
    /\ configCall = NoConfigCall
    /\ ResolversIdle
    /\ RelocationIdle
    /\ PropagatorIdle
    /\ SweepIdle
    /\ ImporterIdle
    /\ TreeIdle

\* The backend starts (again, once stopApp has stopped it): onModuleInit
\* calls initializeInfraConfigTable in the new process.
Initialize ==
    /\ configCalls = EmptyBag
    /\ configCalls' = callsAfter(configCalls, initializeInfraConfigTable)
    /\ configCall' = callReturned(initializeInfraConfigTable)
    /\ appStopping' = FALSE
    /\ UNCHANGED <<configTable, configCallsMade, outsideConfig>>

\* Another instance of the backend on the same database seeds the table
\* while this one starts: its createMany inserts default rows the table
\* lacks.
OtherInstanceSeeds ==
    /\ configCalls # EmptyBag
    /\ \E missing \in (SUBSET MissingDefaults(configTable)) \ {{}} :
          configTable' =
              createMany(configTable,
                         SelectSeq(DefaultInfraConfigs,
                                   LAMBDA p : \E i \in missing :
                                                  DefaultInfraConfigs[i] = p))
    /\ configCall' = NoConfigCall
    /\ UNCHANGED <<appStopping, configCalls, configCallsMade, outsideConfig>>

NextSeed ==
    \/ Initialize
    \/ OtherInstanceSeeds
    \/ DatabaseAnswers
    \/ CallResumes

SpecSeed == InitSeed /\ [][NextSeed]_vars

----------------------------------------------------------------------------
(* A call of getChildren and the view it watches *)

InitTree ==
    /\ tabs = <<>>
    /\ workspaceHandle \in {"ok", "invalid"}
    /\ viewHandle = NoHandle
    /\ childrenCall = NoChildrenCall
    /\ childrenResult = NoResult
    /\ ResolversIdle
    /\ RelocationIdle
    /\ PropagatorIdle
    /\ SweepIdle
    /\ ImporterIdle
    /\ ConfigIdle

\* getChildren is called and returns, or throws.
GetChildren ==
    /\ childrenCall.phase = "none"
    /\ \E nodeID \in TreeNodeIDs :
          childrenCall' = getChildren(workspaceHandle, nodeID)
    /\ childrenResult' = IF workspaceHandle # "ok" THEN childrenResult
                          ELSE LoadingResult
    /\ UNCHANGED <<workspaceHandle, viewHandle, outsideTree>>

\* getCollectionHandle answers: on a Left the async part throws.
CollectionHandleAnswered ==
    /\ childrenCall.phase = "handle"
    /\ \E answer \in {"Left", "Right"} :
          childrenCall' =
              ChildrenCall(IF answer = "Left" THEN "failed" ELSE "view",
                           childrenCall.nodeID, FALSE)
    /\ UNCHANGED <<workspaceHandle, viewHandle, childrenResult, outsideTree>>

\* getRESTCollectionChildrenView, or getRESTRootCollectionView, answers: on
\* a Left the async part throws, on a Right it sets the effect up, which
\* runs it once.
ViewAnswered ==
    /\ childrenCall.phase = "view"
    /\ \/ /\ childrenCall' = ChildrenCall("failed", childrenCall.nodeID, FALSE)
          /\ UNCHANGED <<viewHandle, childrenResult>>
       \/ \E handle \in ViewHandles(childrenCall.nodeID) :
             /\ viewHandle' = handle
             /\ childrenCall' =
                    ChildrenCall("watching", childrenCall.nodeID, FALSE)
             /\ childrenResult' =
                    viewEffect(childrenResult, childrenCall.nodeID, handle)
    /\ UNCHANGED <<workspaceHandle, outsideTree>>

\* The service changes the view: its loading flag, its content, or whether
\* its handle is ok.  The effect is scheduled to run again.
ViewChanged ==
    /\ childrenCall.phase = "watching"
    /\ \E handle \in ViewHandles(childrenCall.nodeID) \ {viewHandle} :
          viewHandle' = handle
    /\ childrenCall' = ChildrenCall("watching", childrenCall.nodeID, TRUE)
    /\ UNCHANGED <<workspaceHandle, childrenResult, outsideTree>>

\* The scheduled effect runs.
EffectRuns ==
    /\ childrenCall.phase = "watching"
    /\ childrenCall.pending
    /\ childrenResult' =
           viewEffect(childrenResult, childrenCall.nodeID, viewHandle)
    /\ childrenCall' = ChildrenCall("watching", childrenCall.nodeID, FALSE)
    /\ UNCHANGED <<workspaceHandle, viewHandle, outsideTree>>

NextTree ==
    \/ GetChildren
    \/ CollectionHandleAnswered
    \/ ViewAnswered
    \/ ViewChanged
    \/ EffectRuns

SpecTree == InitTree /\ [][NextTree]_vars

----------------------------------------------------------------------------
(* A folder dropped into another folder, and the tabs saved under it *)

\* The path the dropped folder had.
RelocatedFrom == {PathOf(<<0>>), PathOf(<<0, 1>>)}

\* The path it has in its new parent.
RelocatedTo == {PathOf(<<2>>), PathOf(<<1, 0>>)}

InitRelocate ==
    /\ tabs = <<>>
    /\ ResolversIdle
    /\ OutsideResolversIdle

\* A request is opened in a new tab.
OpenRelocationTab ==
    /\ ~relocation.called
    /\ Len(tabs) < MaxTabs
    /\ \E ctx \in OpenableContexts : tabs' = Append(tabs, Tab(ctx, FALSE))
    /\ UNCHANGED relocation
    /\ UNCHANGED outsideRelocation

\* The tab's request is edited.
EditRelocationTab ==
    /\ ~relocation.called
    /\ \E i \in 1..Len(tabs) :
          /\ ~tabs[i].isDirty
          /\ tabs' = [tabs EXCEPT ![i].isDirty = TRUE]
    /\ UNCHANGED relocation
    /\ UNCHANGED outsideRelocation

\* A folder is dropped into another folder: one call of
\* updateSaveContextForAffectedRequests, observed.
DropFolder ==
    /\ ~relocation.called
    /\ \E oldFolderPath \in RelocatedFrom, newFolderPath \in RelocatedTo :
          /\ tabs' = updateSaveContextForAffectedRequests(
                         tabs, oldFolderPath, newFolderPath)
          /\ relocation' = Relocation(TRUE, oldFolderPath, newFolderPath, tabs)
    /\ UNCHANGED outsideRelocation

NextRelocate ==
    \/ OpenRelocationTab
    \/ EditRelocationTab
    \/ DropFolder

SpecRelocate == InitRelocate /\ [][NextRelocate]_vars

----------------------------------------------------------------------------
(* Vocabulary of the properties *)

TabIndexes == 1..Len(tabs)

IsUserCollection(tab) == tab.saveContext.originLocation = "user-collection"

IsWorkspaceUserCollection(tab) ==
    tab.saveContext.originLocation = "workspace-user-collection"

\* The tab is saved in the personal workspace, under some folder path.
IsPersonal(tab) == IsUserCollection(tab) \/ IsWorkspaceUserCollection(tab)

\* The path a tab is saved under: the folderPath of a user-collection
\* context, requestID less its last segment for a workspace-user-collection.
\* Only used on tabs of these two kinds.
savedUnder(tab) ==
    IF tab.saveContext.originLocation = "user-collection"
    THEN tab.saveContext.folderPath
    ELSE collectionIDOf(tab.saveContext.requestID)

\* path names the folder `folder` or a folder nested in it: the segments of
\* folder are the leading segments of path.
AtOrUnder(path, folder) ==
    LET p == split(path)
        f == split(folder)
    IN  /\ Len(f) <= Len(p)
        /\ SubSeq(p, 1, Len(f)) = f

\* The destination of the call once a downward move is decremented.
OpNewIndex == IF op.newIndex > op.lastIndex THEN op.newIndex - 1 ELSE op.newIndex

\* The call moved a sibling to another position.
IsMove == op.kind # "idle" /\ op.newIndex # -1 /\ OpNewIndex # op.lastIndex

\* The call reported a deletion.
IsDeletion == op.kind # "idle" /\ op.newIndex = -1

\* The path of the folder a collection-level deletion removed.
DeletedPath == childPath(op.folderPath, op.lastIndex)

IsFolderRemoval == op.kind = "collection" /\ op.newIndex = -1 /\ op.type = "remove"

----------------------------------------------------------------------------
(* Properties *)

\* C1: after any sequence of request moves in a folder, every open tab saved
\* as a user-collection request of that folder has a requestIndex that is the
\* current position of the request the tab was opened on.
C1_TabsFollowTheirRequest ==
    \A i \in TabIndexes :
        (IsUserCollection(tabs[i]) /\ tabs[i].saveContext.folderPath = MovesFolder)
        => /\ tabs[i].saveContext.requestIndex \in 0..(Len(requests) - 1)
           /\ requests[tabs[i].saveContext.requestIndex + 1] = addressed[i].request

\* C1 witness: a tab of the folder whose request has been moved since the tab
\* was opened, and whose requestIndex was rewritten to the new position.
C1_Witness ==
    \E i \in TabIndexes :
        /\ IsUserCollection(tabs[i])
        /\ tabs[i].saveContext.folderPath = MovesFolder
        /\ tabs[i].saveContext.requestIndex # addressed[i].index
        /\ requests[tabs[i].saveContext.requestIndex + 1] = addressed[i].request

\* C2: on a move the affected-index map is a bijection on the inclusive range
\* between lastIndex and the decremented newIndex: lastIndex maps to newIndex,
\* every other position of the range shifts by one toward the vacated slot,
\* nothing outside the range is a key; moving 3 to 1 gives 1->2, 2->3, 3->1 and
\* takes a tab of that folder from request index 2 to 3.
C2_MoveMapIsRangeBijection ==
    IsMove =>
        LET lo == Min(op.lastIndex, OpNewIndex)
            hi == Max(op.lastIndex, OpNewIndex)
        IN  /\ DOMAIN affectedIndexes = lo..hi
            /\ {affectedIndexes[k] : k \in DOMAIN affectedIndexes} = lo..hi
            /\ affectedIndexes[op.lastIndex] = OpNewIndex
            /\ \A k \in (lo..hi) \ {op.lastIndex} :
                  affectedIndexes[k] = IF op.lastIndex < OpNewIndex THEN k - 1 ELSE k + 1
            /\ (op.kind = "request" /\ op.lastIndex = 3 /\ op.newIndex = 1)
               => /\ affectedIndexes = (1 :> 2) @@ (2 :> 3) @@ (3 :> 1)
                  /\ \A i \in TabIndexes :
                        ( /\ IsUserCollection(before[i])
                          /\ before[i].saveContext.folderPath = op.folderPath
                          /\ before[i].saveContext.requestIndex = 2 )
                        => tabs[i].saveContext.requestIndex = 3

\* C2 witness: the request at 3 was moved to 1 while a tab of the folder was
\* open on the request at 2.
C2_Witness ==
    /\ op.kind = "request" /\ op.lastIndex = 3 /\ op.newIndex = 1
    /\ \E i \in TabIndexes :
          /\ IsUserCollection(before[i])
          /\ before[i].saveContext.folderPath = op.folderPath
          /\ before[i].saveContext.requestIndex = 2
          /\ tabs[i].saveContext.requestIndex = 3

\* C3, as claimed: on a deletion the keys of the map are exactly
\* lastIndex+1 .. length-1, each mapped to itself minus one.
C3_Original ==
    IsDeletion =>
        /\ DOMAIN affectedIndexes = (op.lastIndex + 1)..(op.length - 1)
        /\ \A k \in DOMAIN affectedIndexes : affectedIndexes[k] = k - 1

\* C3, amended: on a deletion the keys of the map are exactly
\* lastIndex+1 .. length (length itself is a key), each mapped to itself minus
\* one, and lastIndex is not a key.
C3_DeletionMap ==
    IsDeletion =>
        /\ DOMAIN affectedIndexes = (op.lastIndex + 1)..op.length
        /\ \A k \in DOMAIN affectedIndexes : affectedIndexes[k] = k - 1
        /\ op.lastIndex \notin DOMAIN affectedIndexes

\* C3 witness: a request was deleted below the position a tab of the folder
\* was open on, and the tab moved down by one.
C3_Witness ==
    /\ op.kind = "request" /\ IsDeletion
    /\ op.length \in DOMAIN affectedIndexes
    /\ \E i \in TabIndexes :
          /\ IsUserCollection(before[i])
          /\ before[i].saveContext.folderPath = op.folderPath
          /\ before[i].saveContext.requestIndex > op.lastIndex
          /\ tabs[i].saveContext.requestIndex = before[i].saveContext.requestIndex - 1

\* C4: in both resolvers, a call with newIndex = lastIndex or
\* newIndex = lastIndex + 1 (equal once decremented) works with an empty map
\* and changes no tab's save context or dirty flag.
C4_NoMoveNoChange ==
    (op.kind # "idle" /\ op.newIndex \in {op.lastIndex, op.lastIndex + 1})
    => /\ affectedIndexes = EmptyMap
       /\ tabs = before

\* C4 witness: a resolver was called with newIndex = lastIndex + 1 while a
\* tab was open on the very sibling named by lastIndex, and the tab is as it
\* was.
C4_Witness ==
    /\ op.kind # "idle"
    /\ op.newIndex = op.lastIndex + 1
    /\ \E i \in TabIndexes :
          /\ IsUserCollection(before[i])
          /\ IF op.kind = "request"
             THEN /\ before[i].saveContext.folderPath = op.folderPath
                  /\ before[i].saveContext.requestIndex = op.lastIndex
             ELSE before[i].saveContext.folderPath = DeletedPath
          /\ tabs[i] = before[i]

\* C5: after a folder removal every tab that was saved in the deleted folder
\* or in a folder nested under it has no save context and is dirty.
C5_TeardownClearsSubtree ==
    IsFolderRemoval =>
        \A i \in TabIndexes :
            (IsPersonal(before[i]) /\ AtOrUnder(savedUnder(before[i]), DeletedPath))
            => /\ tabs[i].saveContext = NullContext
               /\ tabs[i].isDirty

\* C5 witness: a folder was removed while a tab was open in a folder nested
\* under it, and that tab lost its save context.
C5_Witness ==
    /\ IsFolderRemoval
    /\ \E i \in TabIndexes :
          /\ IsPersonal(before[i])
          /\ AtOrUnder(savedUnder(before[i]), DeletedPath)
          /\ savedUnder(before[i]) # DeletedPath
          /\ tabs[i].saveContext = NullContext
          /\ tabs[i].isDirty

\* C6: a folder removal's teardown never clears the save context nor sets
\* the dirty flag of a tab saved in a folder that is neither the deleted
\* folder nor nested under it, segment by segment ("0/2" and "0/10" are
\* outside "0/1").
C6_TeardownSparesOtherFolders ==
    IsFolderRemoval =>
        \A i \in TabIndexes :
            (IsPersonal(before[i]) /\ ~AtOrUnder(savedUnder(before[i]), DeletedPath))
            => /\ tabs[i].saveContext # NullContext
               /\ tabs[i].isDirty = before[i].isDirty

\* C7: after a folder removal a tab saved under the deleted folder has no
\* save context, and a tab saved directly in a later sibling folderPath/k
\* (lastIndex < k <= length) is saved in folderPath/(k-1).
C7_TeardownThenReindex ==
    IsFolderRemoval =>
        \A i \in TabIndexes :
            /\ (IsPersonal(before[i]) /\ AtOrUnder(savedUnder(before[i]), DeletedPath))
               => tabs[i].saveContext = NullContext
            /\ \A k \in (op.lastIndex + 1)..op.length :
                  (IsPersonal(before[i])
                     /\ savedUnder(before[i]) = childPath(op.folderPath, k))
                  => /\ IsPersonal(tabs[i])
                     /\ savedUnder(tabs[i]) = childPath(op.folderPath, k - 1)

\* C8: after a collection-level call, a user-collection tab that was saved in
\* an affected sibling folderPath/old is saved in folderPath/new with the same
\* requestIndex, and a workspace-user-collection tab whose requestID named a
\* request of an affected sibling names the same trailing segment under the
\* new path.
C8_FolderComponentRewritten ==
    (op.kind = "collection" /\ ~collectionReturnsEarly(op)) =>
        \A i \in TabIndexes : \A old \in DOMAIN affectedIndexes :
            LET oldPath == childPath(op.folderPath, old)
                newPath == childPath(op.folderPath, affectedIndexes[old])
            IN  /\ (IsUserCollection(before[i])
                      /\ before[i].saveContext.folderPath = oldPath)
                   => tabs[i].saveContext =
                          [before[i].saveContext EXCEPT !.folderPath = newPath]
                /\ (IsWorkspaceUserCollection(before[i])
                      /\ collectionIDOf(before[i].saveContext.requestID) = oldPath)
                   => tabs[i].saveContext =
                          [before[i].saveContext EXCEPT !.requestID =
                              slashJoin(newPath, lastSegmentOf(@))]

\* C9: after a folder is moved among its siblings, every tab that was saved
\* in a sibling whose position changed, or in a folder nested at any depth
\* under such a sibling, is saved under the sibling's new path with the rest
\* of its path unchanged.
C9_NestedTabsFollowTheirFolder ==
    (op.kind = "collection" /\ IsMove) =>
        \A i \in TabIndexes : \A old \in DOMAIN affectedIndexes :
            LET oldPath == childPath(op.folderPath, old)
                newPath == childPath(op.folderPath, affectedIndexes[old])
            IN  (IsPersonal(before[i]) /\ AtOrUnder(savedUnder(before[i]), oldPath))
                => /\ IsPersonal(tabs[i])
                   /\ savedUnder(tabs[i]) =
                        newPath \o SubSeq(savedUnder(before[i]), Len(oldPath) + 1,
                                          Len(savedUnder(before[i])))

\* C10: after a request-level call, a workspace-user-collection tab whose
\* collectionID is the folder path and whose requestID ends in a key of the
\* map has that trailing segment rewritten to the mapped index.
C10_WorkspaceRequestIDRewritten ==
    (op.kind = "request" /\ ~requestReturnsEarly(op)) =>
        \A i \in TabIndexes :
            LET old == parseInt(lastSegmentOf(before[i].saveContext.requestID))
            IN  ( /\ IsWorkspaceUserCollection(before[i])
                  /\ before[i].saveContext.collectionID = op.folderPath
                  /\ old \in DOMAIN affectedIndexes )
                => tabs[i].saveContext.requestID =
                       slashJoin(collectionIDOf(before[i].saveContext.requestID),
                                 toString(affectedIndexes[old]))

\* C11: after a request deletion the tab that was saved as the deleted
\* request (same folderPath, requestIndex = lastIndex) has no save context and
\* is dirty, and no two tabs that were saved as different requests are saved
\* as the same (folderPath, requestIndex).
C11_DeletedRequestTabCleared ==
    (op.kind = "request" /\ IsDeletion) =>
        /\ \A i \in TabIndexes :
              ( /\ IsUserCollection(before[i])
                /\ before[i].saveContext.folderPath = op.folderPath
                /\ before[i].saveContext.requestIndex = op.lastIndex )
              => /\ tabs[i].saveContext = NullContext
                 /\ tabs[i].isDirty
        /\ \A i, j \in TabIndexes :
              ( /\ IsUserCollection(before[i]) /\ IsUserCollection(before[j])
                /\ before[i].saveContext # before[j].saveContext
                /\ IsUserCollection(tabs[i]) /\ IsUserCollection(tabs[j]) )
              => tabs[i].saveContext # tabs[j].saveContext

----------------------------------------------------------------------------
(* Properties of the propagation of inherited properties *)

\* The path the propagation measures a tab by (none for a tab without save
\* context).
PropagationPathOf(tab) ==
    IF tab.saveContext.originLocation = "team-collection"
    THEN tab.saveContext.collectionID
    ELSE savedUnder(tab)

\* The tab's document is nested under the propagated path, in the workspace
\* kind of the call: the segments of the path are the leading segments of the
\* tab's save-context path.
NestedUnderPath(i) ==
    /\ IF propagation.workspace = "personal"
       THEN IsPersonal(tabs[i])
       ELSE tabs[i].saveContext.originLocation = "team-collection"
    /\ AtOrUnder(PropagationPathOf(tabs[i]), propagation.path)

\* Number of leading segments of path that are the leading segments of
\* savePath.
LeadingMatches(path, savePath) ==
    LET p == split(path)
        q == split(savePath)
    IN  Cardinality({n \in 1..Len(p) :
                        n <= Len(q) /\ SubSeq(p, 1, n) = SubSeq(q, 1, n)})

\* The cached auth source of the tab is closer to the tab than the propagated
\* path is.
CachedSourceCloser(i) ==
    /\ inheritedBefore[i].defined
    /\ inheritedBefore[i].auth.parentID # <<>>
    /\ LeadingMatches(inheritedBefore[i].auth.parentID,
                      PropagationPathOf(tabs[i]))
         > LeadingMatches(propagation.path, PropagationPathOf(tabs[i]))

\* The call replaced the cached properties of the tab by the snapshot.
Overridden(i) ==
    /\ inheritedProperties[i].auth = propagation.snapshot.auth
    /\ inheritedBefore[i].auth # propagation.snapshot.auth

\* C12: the call replaces the cached properties of a tab exactly when the tab
\* is nested under path and its cached auth source does not match strictly
\* more leading segments of the tab's save-context path than path does (a
\* tie or a missing cached source lets path win).
C12_AuthClosestSourceWins ==
    propagation.called =>
        \A i \in TabIndexes :
            Overridden(i) <=> (NestedUnderPath(i) /\ ~CachedSourceCloser(i))

\* C13: the call changes the inherited properties only of tabs nested under
\* path; ancestors, siblings, tabs of the other workspace kind and tabs
\* without save context keep theirs.
C13_OnlyNestedTabsChange ==
    propagation.called =>
        \A i \in TabIndexes :
            inheritedProperties[i] # inheritedBefore[i] => NestedUnderPath(i)

\* The snapshot has a header with this key.
SnapshotHasKey(key) ==
    \E h \in 1..Len(propagation.snapshot.headers) :
        propagation.snapshot.headers[h].inheritedHeader.key = key

\* The header list holds this entry.
HoldsEntry(headers, entry) == \E h \in 1..Len(headers) : headers[h] = entry

\* C14: in a tab nested under path whose cached header list has an entry of
\* path, after the call every such entry whose key the snapshot still has
\* carries the snapshot's header of that key, and every cached entry of
\* another folder is in the list as it was.
C14_HeadersOfPathRefreshed ==
    propagation.called =>
        \A i \in TabIndexes :
            ( /\ NestedUnderPath(i)
              /\ inheritedBefore[i].defined
              /\ \E h \in 1..Len(inheritedBefore[i].headers) :
                    inheritedBefore[i].headers[h].parentID = propagation.path )
            => \A h \in 1..Len(inheritedBefore[i].headers) :
                   LET old == inheritedBefore[i].headers[h]
                   IN  IF old.parentID = propagation.path
                       THEN SnapshotHasKey(old.inheritedHeader.key)
                            => HoldsEntry(inheritedProperties[i].headers,
                                   InheritedHeader(propagation.path,
                                       findInheritedHeader(
                                           propagation.snapshot.headers,
                                           old.inheritedHeader.key)))
                       ELSE HoldsEntry(inheritedProperties[i].headers, old)

----------------------------------------------------------------------------
(* Properties of the team reconciliation sweep *)

\* The last step handled a lookup response.
ResponseHandled == response.result # "none"

\* C15: when a sweep handles the response of a lookup, the tab the lookup was
\* issued for has no save context and is dirty if the response is Right with
\* request null, and is as it was if the response is Left or holds a request.
C15_ClearedIffRequestGone ==
    ResponseHandled =>
        IF response.result = "null"
        THEN tabs[response.tab] = Tab(NullContext, TRUE)
        ELSE tabs[response.tab] = response.held

\* C15 witness: a null response has cleared a tab that held a team-collection
\* save context, and another response has left such a tab as it was.
C15_Witness ==
    /\ response.result = "null"
    /\ response.held.saveContext.originLocation = "team-collection"
    /\ ~response.held.isDirty
    /\ tabs[response.tab] = Tab(NullContext, TRUE)

\* C16: a step that handles a lookup response changes no tab but the one the
\* lookup was issued for, leaves that tab's save context as it was or null,
\* and leaves an already cleared tab as it was.
C16_ResponseOnlyClearsItsTab ==
    [][ response'.result # "none" =>
            /\ Len(tabs') = Len(tabs)
            /\ \A i \in 1..Len(tabs) :
                  i # response'.tab => tabs'[i] = tabs[i]
            /\ tabs'[response'.tab].saveContext
                  \in {tabs[response'.tab].saveContext, NullContext}
            /\ tabs[response'.tab].saveContext = NullContext
                  => tabs'[response'.tab] = tabs[response'.tab] ]_vars

\* C16 witness: with two tabs open, a null response has arrived for a tab
\* that another sweep had cleared while the lookup was in flight.
C16_Witness ==
    /\ Len(tabs) > 1
    /\ response.result = "null"
    /\ response.held = Tab(NullContext, TRUE)
    /\ tabs[response.tab] = Tab(NullContext, TRUE)

----------------------------------------------------------------------------
(* Properties of the Insomnia importer *)

\* The import returned collections.
Imported == importResult._tag = "Right"

\* The top-level folders of a file's document.
TopFolders(content) == getFoldersIn(Null, content.resources)

\* Number of collections the files before the i-th contribute.
RECURSIVE CollectionsBefore(_)
CollectionsBefore(i) ==
    IF i <= 1 THEN 0
    ELSE CollectionsBefore(i - 1) + Len(TopFolders(importCall.fileContents[i - 1]))

\* The pairs <<request of the document, request imported from it>> of a
\* folder of a document and the collection imported from it.
RECURSIVE PairsIn(_, _, _)
PairsIn(folderRes, collection, resources) ==
    {<<getRequestsIn(folderRes._id, resources)[r], collection.requests[r]>> :
        r \in 1..Len(collection.requests)}
    \cup UNION {PairsIn(getFoldersIn(folderRes._id, resources)[f],
                        collection.folders[f], resources) :
                    f \in 1..Len(collection.folders)}

\* The pairs of the i-th file.
PairsOfFile(i) ==
    UNION {PairsIn(TopFolders(importCall.fileContents[i])[f],
                   importResult.right[CollectionsBefore(i) + f],
                   importCall.fileContents[i].resources) :
              f \in 1..Len(TopFolders(importCall.fileContents[i]))}

ImportedPairs == UNION {PairsOfFile(i) : i \in 1..Len(importCall.fileContents)}

\* C17: every imported request has the auth its source dispatches to: basic
\* to basic, oauth2 to oauth-2, bearer to bearer, no authentication or any
\* other type to none; a credential field that is not set is the empty string
\* (a basic auth without username and password is {authType: "basic",
\* authActive: true, username: "", password: ""}).
C17_AuthDispatch ==
    Imported =>
        \A pair \in ImportedPairs :
            LET source == pair[1].authentication
                auth == pair[2].auth
            IN  IF ~source.defined THEN auth.authType = "none"
                ELSE IF source.type = "basic"
                THEN /\ auth.authType = "basic"
                     /\ source.username = Undefined => auth.username = <<>>
                     /\ source.password = Undefined => auth.password = <<>>
                     /\ (source.username = Undefined
                           /\ source.password = Undefined)
                        => auth = [username |-> <<>>, password |-> <<>>,
                                   authType |-> "basic", authActive |-> TRUE]
                ELSE IF source.type = "oauth2"
                THEN /\ auth.authType = "oauth-2"
                     /\ source.accessTokenUrl = Undefined
                        => auth.accessTokenURL = <<>>
                     /\ source.authorizationUrl = Undefined
                        => auth.authURL = <<>>
                     /\ source.clientId = Undefined => auth.clientID = <<>>
                     /\ source.scope = Undefined => auth.scope = <<>>
                ELSE IF source.type = "bearer"
                THEN /\ auth.authType = "bearer"
                     /\ source.token = Undefined => auth.token = <<>>
                ELSE auth.authType = "none"

\* C17 witness: a request with a basic auth that sets neither username nor
\* password has been imported with empty credentials.
C17_Witness ==
    /\ Imported
    /\ \E pair \in ImportedPairs :
          /\ pair[1].authentication.defined
          /\ pair[1].authentication.type = "basic"
          /\ pair[1].authentication.username = Undefined
          /\ pair[1].authentication.password = Undefined
          /\ pair[2].auth = [username |-> <<>>, password |-> <<>>,
                             authType |-> "basic", authActive |-> TRUE]

\* The body of the request is an object that declares a MIME type the
\* importer does not recognise.
UnrecognisedBody(req) ==
    /\ req.body.kind = "object"
    /\ req.body.mimeType # Undefined
    /\ req.body.mimeType
         \notin knownContentTypes \cup {MultipartFormData, FormUrlencoded}

\* C18: when every file parses, the import succeeds whatever the bodies of
\* the requests are, and a request whose body declares an unrecognised MIME
\* type is imported with {contentType: null, body: null}.
C18_UnrecognisedBodyDropped ==
    ( /\ importResult._tag # "none"
      /\ \A i \in 1..Len(importCall.fileContents) : importCall.fileContents[i].parses )
    => /\ Imported
       /\ \A pair \in ImportedPairs :
             UnrecognisedBody(pair[1])
             => /\ pair[2].body.contentType = Null
                /\ pair[2].body.body = Null

\* C18 witness: a request with an unrecognised body has been imported.
C18_Witness ==
    /\ Imported
    /\ \E pair \in ImportedPairs :
          /\ UnrecognisedBody(pair[1])
          /\ pair[2].body.contentType = Null
          /\ pair[2].body.body = Null

\* C19: the import of a list of files is the failure
\* IMPORTER_INVALID_FILE_FORMAT, without collections, when some file does not
\* parse; otherwise it is the collections of the files, file by file in list
\* order and folder by folder in document order.
C19_AllOrNothing ==
    importResult._tag # "none" =>
        IF \E i \in 1..Len(importCall.fileContents) : ~importCall.fileContents[i].parses
        THEN /\ importResult._tag = "Left"
             /\ importResult.left = IMPORTER_INVALID_FILE_FORMAT
             /\ importResult.right = <<>>
        ELSE /\ Imported
             /\ Len(importResult.right)
                  = CollectionsBefore(Len(importCall.fileContents) + 1)
             /\ \A i \in 1..Len(importCall.fileContents) :
                   \A f \in 1..Len(TopFolders(importCall.fileContents[i])) :
                       importResult.right[CollectionsBefore(i) + f]
                         = getHoppFolder(TopFolders(importCall.fileContents[i])[f],
                                         importCall.fileContents[i].resources)

\* C19 witness: of two files the first parses and the second does not, and
\* the import is the failure.
C19_Witness ==
    /\ Len(importCall.fileContents) = 2
    /\ importCall.fileContents[1].parses
    /\ ~importCall.fileContents[2].parses
    /\ importResult._tag = "Left"
    /\ importResult.right = <<>>

----------------------------------------------------------------------------
(* Properties of the infra config service *)

\* A call of update or updateMany returns in the step.
UpdateReturns == configCall'.operation \in {"update", "updateMany"}

\* An element of the call that returns in the step fails the predicate of
\* its name.
SomeElementRejected ==
    \E i \in 1..Len(configCall'.infraConfigs) :
        ~envValueAccepted(configCall'.infraConfigs[i])

\* C20: a call of update or updateMany with an element that fails the
\* predicate of its name returns INFRA_CONFIG_INVALID_INPUT in the step it
\* is made in, whatever other calls await the database; the step leaves
\* every row of the table as it was, the rows of the elements before the
\* failing one included, and does not call stopApp.
C20_InvalidInputWritesNothing ==
    [][ (UpdateReturns /\ SomeElementRejected) =>
          /\ configCall'.result._tag = "Left"
          /\ configCall'.result.left = INFRA_CONFIG_INVALID_INPUT
          /\ configCallsMade' = configCallsMade + 1
          /\ configCalls' = configCalls
          /\ configTable' = configTable
          /\ appStopping' = appStopping ]_vars

\* C20 witness: while a call whose row the database has written waits to
\* be resumed, an updateMany whose first element passes and names a row
\* that holds another value, and whose second element fails, has been
\* refused; the application has not been asked to stop.
C20_Witness ==
    /\ \E task \in BagToSet(configCalls) : task.phase = "written"
    /\ configCall.operation = "updateMany"
    /\ Len(configCall.infraConfigs) = 2
    /\ envValueAccepted(configCall.infraConfigs[1])
    /\ configTable[configCall.infraConfigs[1].name]
         # configCall.infraConfigs[1].value
    /\ ~envValueAccepted(configCall.infraConfigs[2])
    /\ configCall.result._tag = "Left"
    /\ configCall.result.left = INFRA_CONFIG_INVALID_INPUT
    /\ ~appStopping

\* The table has a row for every default.
DefaultsPresent(table) ==
    \A i \in 1..Len(DefaultInfraConfigs) :
        DefaultInfraConfigs[i].name \in DOMAIN table

\* The call of initializeInfraConfigTable awaits the statement and the
\* step is its answer.
SeedingAnswered(phase) ==
    \E task \in BagToSet(configCalls) :
        /\ task.operation = "initializeInfraConfigTable"
        /\ task.phase = phase
        /\ configCalls' # configCalls

\* C21: no step of a start of the backend changes or removes a row the
\* table has, and a row that is added is a default the table did not have,
\* with the default value; the rows createMany is awaited with are rows the
\* table did not have when it was read; the application is stopped only by
\* a call that has inserted rows; and a call that reads a table with a row
\* for every default, which is the table a seeding leaves, returns there,
\* having written nothing and without stopping the application.
C21_SeedingIdempotent ==
    [][ /\ \A name \in DOMAIN configTable :
              /\ name \in DOMAIN configTable'
              /\ configTable'[name] = configTable[name]
        /\ \A name \in (DOMAIN configTable') \ (DOMAIN configTable) :
              \E i \in 1..Len(DefaultInfraConfigs) :
                  /\ DefaultInfraConfigs[i].name = name
                  /\ DefaultInfraConfigs[i].value = configTable'[name]
        /\ \A task \in BagToSet(configCalls') :
              (SeedingAnswered("findMany") /\ task.phase = "createMany")
              => \A i \in 1..Len(task.infraConfigs) :
                     task.infraConfigs[i].name \notin DOMAIN configTable
        /\ (appStopping' /\ ~appStopping)
           => /\ configCall'.operation = "initializeInfraConfigTable"
              /\ Len(configCall'.infraConfigs) > 0
              /\ DefaultsPresent(configTable')
        /\ (SeedingAnswered("findMany") /\ DefaultsPresent(configTable))
           => /\ configCalls' = EmptyBag
              /\ configCall'.operation = "initializeInfraConfigTable"
              /\ configCall'.result._tag \in {"Left", "Right"}
              /\ configTable' = configTable
              /\ appStopping' = appStopping ]_vars

\* C21 witness: after a seeding and a restart, the call has read a table
\* with a row for every default, one of them with a value that is not the
\* default, and has returned with nothing to insert; the table is as it
\* was and the application has not been asked to stop.
C21_Witness ==
    /\ configCall.operation = "initializeInfraConfigTable"
    /\ configCall.infraConfigs = <<>>
    /\ configCall.result._tag = "Right"
    /\ configCalls = EmptyBag
    /\ DefaultsPresent(configTable)
    /\ \E name \in DOMAIN configTable : configTable[name] # SeededValue
    /\ ~appStopping

----------------------------------------------------------------------------
(* Properties of the tree adapter *)

\* The effect is set up and has run since the view last changed.
TreeSettled == childrenCall.phase = "watching" /\ ~childrenCall.pending

\* The id the tree shows a child of the view under.
ShownID(nodeID, child) ==
    IF nodeID = Null THEN child.collectionID
    ELSE IF child.type = "request" THEN child.value.requestID
    ELSE child.value.collectionID

\* The result is loaded with one entry per child of the view, in the order
\* of the view.
LoadedWithChildren(result, nodeID, content) ==
    /\ result.status = "loaded"
    /\ Len(result.data) = Len(content)
    /\ \A i \in 1..Len(content) :
          /\ result.data[i].id = ShownID(nodeID, content[i])
          /\ IF nodeID = Null
             THEN /\ result.data[i].data.type = "collection"
                  /\ result.data[i].data.value = content[i]
             ELSE result.data[i].data = content[i]

\* C22 as stated: getChildren throws exactly when the workspace handle is
\* not ok; the result is loading when it returns; once the effect has run,
\* the result is loaded, with the children of the view, exactly when the
\* view handle is ok and its loading flag is false, and loading otherwise.
C22_Original ==
    /\ childrenCall.phase # "none"
       => (childrenCall.phase = "raised" <=> workspaceHandle # "ok")
    /\ childrenCall.phase \in {"handle", "view"}
       => childrenResult = LoadingResult
    /\ TreeSettled
       => IF viewHandle.type = "ok" /\ ~viewHandle.loading
          THEN LoadedWithChildren(childrenResult, childrenCall.nodeID,
                                  viewHandle.content)
          ELSE childrenResult = LoadingResult

\* C22: getChildren throws, without a result, when the workspace handle is
\* not ok, and returns a loading result otherwise; once the effect has run
\* on a view handle that is ok, the result is loading when the loading flag
\* is true and loaded with the children of the view when it is false; while
\* the view handle is not ok the result stays what it was.
C22_LoadingContract ==
    [][ /\ (childrenCall.phase = "none" /\ childrenCall'.phase # "none")
           => IF workspaceHandle # "ok"
              THEN /\ childrenCall'.phase = "raised"
                   /\ childrenResult' = childrenResult
              ELSE /\ childrenCall'.phase # "raised"
                   /\ childrenResult' = LoadingResult
        /\ (TreeSettled' /\ viewHandle'.type = "ok")
           => IF viewHandle'.loading
              THEN childrenResult' = LoadingResult
              ELSE LoadedWithChildren(childrenResult', childrenCall'.nodeID,
                                      viewHandle'.content)
        /\ (childrenCall'.phase = "watching" /\ viewHandle'.type # "ok")
           => childrenResult' = childrenResult ]_vars

\* C22 witness: the view handle has stopped being ok after the children of
\* a collection were loaded, the effect has run again, and the result still
\* shows the two children.
C22_Witness ==
    /\ TreeSettled
    /\ childrenCall.nodeID # Null
    /\ viewHandle.type = "invalid"
    /\ childrenResult.status = "loaded"
    /\ Len(childrenResult.data) = 2

----------------------------------------------------------------------------
(* Further properties of the resolvers *)

\* The call reported that a folder was dropped into another folder.
IsFolderDrop == op.kind = "collection" /\ op.newIndex = -1 /\ op.type = "drop"

\* C23: after a collection-level call with newIndex = -1 in "drop" mode no
\* tab has lost its save context and no tab has changed its dirty flag; the
\* moved position is not a key of the map, and a tab saved in the moved
\* folder folderPath/lastIndex or under it is as it was; a tab saved
\* directly in a later sibling folderPath/k (lastIndex < k <= length) is
\* saved in folderPath/(k-1).
C23_DropDoesNotTearDown ==
    IsFolderDrop =>
        /\ op.lastIndex \notin DOMAIN affectedIndexes
        /\ \A i \in TabIndexes :
              /\ tabs[i].isDirty = before[i].isDirty
              /\ before[i].saveContext # NullContext
                 => tabs[i].saveContext # NullContext
              /\ (IsPersonal(before[i])
                    /\ AtOrUnder(savedUnder(before[i]), DeletedPath))
                 => tabs[i] = before[i]
              /\ \A k \in (op.lastIndex + 1)..op.length :
                    (IsPersonal(before[i])
                       /\ savedUnder(before[i]) = childPath(op.folderPath, k))
                    => /\ IsPersonal(tabs[i])
                       /\ savedUnder(tabs[i]) = childPath(op.folderPath, k - 1)

\* C23 witness: a folder was dropped elsewhere while one tab was saved under
\* it and another directly in a later sibling; the first is as it was, the
\* second has moved down by one.
C23_Witness ==
    /\ IsFolderDrop
    /\ \E i \in TabIndexes :
          /\ IsPersonal(before[i])
          /\ AtOrUnder(savedUnder(before[i]), DeletedPath)
          /\ tabs[i] = before[i]
    /\ \E j \in TabIndexes : \E k \in (op.lastIndex + 1)..op.length :
          /\ IsPersonal(before[j])
          /\ savedUnder(before[j]) = childPath(op.folderPath, k)
          /\ savedUnder(tabs[j]) = childPath(op.folderPath, k - 1)

\* The call was one of resolveSaveContextOnRequestReorder.
IsRequestCall == op.kind = "request"

\* The inclusive range of positions a call touches: from the vacated
\* position to the destination, or to length on a deletion.
AffectedRange ==
    IF op.newIndex = -1
    THEN Min(op.lastIndex, op.length)..Max(op.lastIndex, op.length)
    ELSE Min(op.lastIndex, OpNewIndex)..Max(op.lastIndex, OpNewIndex)

\* C27: after a call of resolveSaveContextOnRequestReorder every tab has the
\* dirty flag and the folderPath it had; a tab without save context, a
\* team-collection tab, a user-collection tab saved in another folder than
\* the payload's (a folder nested in it included) and a user-collection tab
\* whose requestIndex is outside the affected range are as they were.
C27_RequestResolverFrame ==
    IsRequestCall =>
        /\ Len(tabs) = Len(before)
        /\ \A i \in TabIndexes :
              /\ tabs[i].isDirty = before[i].isDirty
              /\ tabs[i].saveContext.folderPath
                    = before[i].saveContext.folderPath
              /\ (\/ before[i].saveContext = NullContext
                  \/ before[i].saveContext.originLocation = "team-collection"
                  \/ /\ IsUserCollection(before[i])
                     /\ \/ before[i].saveContext.folderPath # op.folderPath
                        \/ before[i].saveContext.requestIndex
                              \notin AffectedRange)
                 => tabs[i] = before[i]

\* C27 witness: a call has renumbered a tab saved in the payload's folder,
\* while another tab, saved at the same position of a folder nested in it,
\* is as it was.
C27_Witness ==
    /\ IsRequestCall
    /\ \E i, j \in TabIndexes :
          /\ IsUserCollection(before[i])
          /\ before[i].saveContext.folderPath = op.folderPath
          /\ tabs[i].saveContext.requestIndex
                # before[i].saveContext.requestIndex
          /\ IsUserCollection(before[j])
          /\ before[j].saveContext.folderPath # op.folderPath
          /\ AtOrUnder(before[j].saveContext.folderPath, op.folderPath)
          /\ before[j].saveContext.requestIndex
                = before[i].saveContext.requestIndex
          /\ tabs[j] = before[j]

----------------------------------------------------------------------------
(* Further properties of the team reconciliation sweep *)

IsTeamTab(tab) == tab.saveContext.originLocation = "team-collection"

\* The tab still holds the team request the lookup was issued for.
StillQueried(tab, queried) ==
    /\ IsTeamTab(tab)
    /\ tab.saveContext.requestID = queried

\* C24: when a sweep handles a null response and the tab the lookup was
\* issued for no longer holds the team request that was queried (it was saved
\* elsewhere while the lookup was in flight), the tab is as it was when the
\* response arrived.
C24_ClearsOnlyQueriedRequest ==
    (/\ ResponseHandled
     /\ response.result = "null"
     /\ ~StillQueried(response.held, response.queried))
        => tabs[response.tab] = response.held

\* The positions a call captured are positions of open tabs, in tab order,
\* and the call awaits the lookup of one of them.
WellFormedSweep(sweep, ts) ==
    /\ sweep.at \in 1..Len(sweep.refs)
    /\ \A r \in 1..Len(sweep.refs) : sweep.refs[r] \in 1..Len(ts)
    /\ \A r \in 2..Len(sweep.refs) : sweep.refs[r - 1] < sweep.refs[r]

\* The captured positions after `at` whose tab has a team-collection save
\* context in ts.
TeamRefsAfter(sweep, ts) ==
    {r \in (sweep.at + 1)..Len(sweep.refs) : IsTeamTab(ts[sweep.refs[r]])}

\* The least element of a non-empty set of numbers.
Least(S) == CHOOSE r \in S : \A q \in S : r <= q

\* Handling the response of a call: the call goes on to the first later
\* captured tab that still has a team-collection save context and awaits the
\* lookup of the request that tab holds now, or, when there is none, the call
\* has returned.
CallAdvances(sweep) ==
    /\ response'.tab = sweep.refs[sweep.at]
    /\ response'.queried = sweep.requestID
    /\ LET later == TeamRefsAfter(sweep, tabs')
       IN  IF later = {}
           THEN sweeps' = sweeps (-) SetToBag({sweep})
           ELSE sweeps' =
                    (sweeps (-) SetToBag({sweep}))
                        (+) SetToBag({[requestID |->
                                          tabs'[sweep.refs[Least(later)]]
                                              .saveContext.requestID,
                                       at |-> Least(later),
                                       refs |-> sweep.refs]})

\* A call that has just started: it captured the tabs that have a
\* team-collection save context, and awaits the lookup of the first of them.
CallStarts(sweep) ==
    /\ sweeps' = sweeps (+) SetToBag({sweep})
    /\ tabs' = tabs
    /\ WellFormedSweep(sweep, tabs)
    /\ \A i \in 1..Len(tabs) :
          IsTeamTab(tabs[i])
             <=> \E r \in 1..Len(sweep.refs) : sweep.refs[r] = i
    /\ sweep.at = 1
    /\ sweep.requestID = tabs[sweep.refs[1]].saveContext.requestID

\* C25: a call that starts awaits one lookup, for the first of the tabs it
\* captured, and these are the tabs that have a team-collection save context
\* then, in tab order; the lookup a call awaits
\* changes only in the step that handles its response, and then moves to the
\* first later captured tab that has a team-collection save context at that
\* moment, passing over those that have none; the call has returned when
\* there is no such tab, and a call that captured no tab issues no lookup.
C25_OneLookupAtATimeInTabOrder ==
    [][ IF response'.result = "none"
        THEN \/ sweeps' = sweeps
             \/ \E sweep \in BagToSet(sweeps') : CallStarts(sweep)
        ELSE \E sweep \in BagToSet(sweeps) : CallAdvances(sweep) ]_vars

\* C25 witness: a call that captured two tabs has handled the response for
\* the first and awaits the lookup for the second.
C25_Witness ==
    /\ ResponseHandled
    /\ \E sweep \in BagToSet(sweeps) :
          /\ Len(sweep.refs) = 2
          /\ sweep.at = 2
          /\ response.tab = sweep.refs[1]
          /\ sweep.requestID = tabs[sweep.refs[2]].saveContext.requestID

----------------------------------------------------------------------------
(* Properties of the folder relocation *)

\* path with its leading segments oldFolderPath (path names that folder or
\* one nested in it) rewritten to newFolderPath.
Relocated(path, oldFolderPath, newFolderPath) ==
    newFolderPath \o SubSeq(path, Len(oldFolderPath) + 1, Len(path))

\* What the call has to make of a tab.
RelocatedTab(tab, oldFolderPath, newFolderPath) ==
    IF ~IsPersonal(tab) \/ ~AtOrUnder(savedUnder(tab), oldFolderPath) THEN tab
    ELSE IF IsUserCollection(tab)
    THEN Tab(UserCollectionContext(
                 Relocated(tab.saveContext.folderPath, oldFolderPath,
                           newFolderPath),
                 tab.saveContext.requestIndex),
             tab.isDirty)
    ELSE Tab(WorkspaceUserCollectionContext(
                 tab.saveContext.collectionID,
                 slashJoin(Relocated(savedUnder(tab), oldFolderPath,
                                     newFolderPath),
                           lastSegmentOf(tab.saveContext.requestID))),
             tab.isDirty)

\* C26: after a call of updateSaveContextForAffectedRequests, a tab saved in
\* oldFolderPath or in a folder nested in it (segment by segment) has the
\* leading oldFolderPath of its folder path, or of its requestID, rewritten
\* to newFolderPath, with the rest of the path, the requestIndex and the last
\* segment of the requestID as they were; every other tab is as it was.
C26_RelocatesTabsUnderFolder ==
    relocation.called =>
        /\ Len(tabs) = Len(relocation.tabsBefore)
        /\ \A i \in 1..Len(tabs) :
              tabs[i] = RelocatedTab(relocation.tabsBefore[i],
                                     relocation.oldFolderPath,
                                     relocation.newFolderPath)

====
